---- MODULE Spec2Model ----
(***************************************************************************)
(* Model of the Smart Card Detective Python tools.                         *)
(*                                                                         *)
(*   Spec       the BER-TLV codec tools/pytools/tlv.py (class T)           *)
(*   TraceSpec  the trace script tools/pyscripts/scdtrace.py               *)
(*   EmvSpec    the status-word table of tools/pytools/emv_commands.py     *)
(*   LogSpec    the log decoder tools/pytools/scdtrace.py                  *)
(*   CmdSpec    command_name and to_card of emv_commands.py                *)
(*   ExplainSpec  explain_response of emv_commands.py                      *)
(*   StepSpec   the loops of the parsers, one iteration a step             *)
(*   NestSpec   T on nested buffers                                        *)
(*   ApduSpec   the classes CAPDU and RAPDU of both scdtrace.py            *)
(*   SerialSpec serial_terminal and serial_card of tools/pytools/clis.py   *)
(*                                                                         *)
(* Binary strings are sequences of bytes 0..255, text is a sequence of     *)
(* ASCII character codes, and a T object is a record holding the           *)
(* attributes the code assigns; the tag accessors the code injects into    *)
(* self.__dict__ are the field "dict".  A call that raises is a result     *)
(* whose field exc names the exception.                                    *)
(***************************************************************************)
EXTENDS Integers, Sequences, FiniteSets, TLC

VARIABLES
    obj,    \* the T object the behaviour follows (None: no object was made)
    pre,    \* obj as it was before the last add, search or findone
    op,     \* the last call and its arguments; the input of a script run
    exc,    \* the exception the last call raised ("" when it returned)
    out,    \* what the last search or findone returned; what a script run
            \* has produced so far
    adds    \* how many times add was called on obj

vars == <<obj, pre, op, exc, out, adds>>

\* ------------------------------------------------------------------ bounds
\* most same-tag siblings in a parsed constructed value
MaxSiblings == 5
\* most calls of add() on one object
MaxAdds == 2
\* most children in the list given to a building T(tag, [...])
MaxKids == 2
\* most (command, response) pairs in one transaction
MaxPairs == 2
\* most complete transactions in one file
MaxTraces == 2
\* most complete records in one log region
MaxRecords == 3

\* --------------------------------------------------------- program constants
\* tlv.py:19  "if len(value) < 256"
OneByteLimit == 256

\* ----------------------------------------------------------- byte strings
Take(s, n) == SubSeq(s, 1, IF n < Len(s) THEN n ELSE Len(s))

Drop(s, n) == SubSeq(s, (IF n < Len(s) THEN n ELSE Len(s)) + 1, Len(s))

RECURSIVE Join(_)
Join(ss) == IF Len(ss) = 0 THEN <<>> ELSE Head(ss) \o Join(Tail(ss))

Fill(b, n) == [i \in 1..n |-> b]

\* ---------------------------------------------------------------- hex text
\* character codes: '0'..'9' = 48..57, 'A'..'F' = 65..70, 'a'..'f' = 97..102
HexChar(n) == IF n < 10 THEN 48 + n ELSE 55 + n

IsUpperHexChar(c) == (c >= 48 /\ c <= 57) \/ (c >= 65 /\ c <= 70)

IsHexChar(c) == IsUpperHexChar(c) \/ (c >= 97 /\ c <= 102)

HexVal(c) == IF c <= 57 THEN c - 48 ELSE IF c <= 70 THEN c - 55 ELSE c - 87

\* str.upper() / str.lower() on the characters hex text can hold
Upper(s) == [i \in 1..Len(s) |-> IF s[i] >= 97 /\ s[i] <= 122 THEN s[i] - 32 ELSE s[i]]

Lower(s) == [i \in 1..Len(s) |-> IF s[i] >= 65 /\ s[i] <= 90 THEN s[i] + 32 ELSE s[i]]

\* tohex: b2a_hex(string).upper()
tohex(b) ==
    [i \in 1..(2 * Len(b)) |->
        IF i % 2 = 1 THEN HexChar(b[(i + 1) \div 2] \div 16)
                     ELSE HexChar(b[i \div 2] % 16)]

\* fromhex: a2b_hex, which raises TypeError on odd length or a non-hex digit
fromhex(h) ==
    IF Len(h) % 2 = 1 \/ (\E i \in 1..Len(h) : ~IsHexChar(h[i]))
    THEN [exc |-> "TypeError", val |-> <<>>]
    ELSE [exc |-> "",
          val |-> [i \in 1..(Len(h) \div 2) |->
                      16 * HexVal(h[2 * i - 1]) + HexVal(h[2 * i])]]

\* -------------------------------------------------------------- tlv helpers
\* struct.pack('!H', n): what line 22 would need; tlv.py binds no name "pack"
\* (imports: chain, b2a_hex, a2b_hex, utils.*, tagname), so PackBound is FALSE
\* and evaluating line 22 raises NameError.
PackBound == FALSE

pack_H(n) == <<(n \div 256) % 256, n % 256>>

\* maketlv(tag, value)
maketlv(tag, value) ==
    IF Len(value) < OneByteLimit
    THEN [exc |-> "", val |-> tag \o <<Len(value)>> \o value]
    ELSE IF PackBound
         THEN [exc |-> "", val |-> <<130>> \o pack_H(Len(value)) \o value]
         ELSE [exc |-> "NameError", val |-> <<>>]

\* constructed(tag): asserts len(tag) in [1,2], then tests bit 0x20
constructed(tag) ==
    IF Len(tag) \notin {1, 2}
    THEN [exc |-> "AssertionError", val |-> FALSE]
    ELSE [exc |-> "", val |-> (tag[1] \div 32) % 2 = 1]

\* validhex(data): every character is one of '0'..'9', 'A'..'F'
validhex(data) == \A i \in 1..Len(data) : IsUpperHexChar(data[i])

\* validhextag(tag)
validhextag(tag) == Len(tag) \in {2, 4} /\ validhex(tag)

\* ------------------------------------------------------------- the T object
\* Python's None
None == [none |-> TRUE]

NoDict == [k \in {} |-> k]

\* the object __init__ holds before _parse runs (lines 117-119); the other
\* attributes do not exist yet and are all assigned by a _parse that returns
Fresh(depth) ==
    [depth |-> depth, raw |-> <<>>, rawh |-> <<>>, tag |-> <<>>, tagh |-> <<>>,
     len |-> 0, lenb |-> <<>>, header |-> <<>>, remlen |-> 0,
     constructed |-> FALSE, count |-> 0, items |-> <<>>,
     v |-> <<>>, vh |-> <<>>, dict |-> NoDict]

\* accessor names: <<tagh, -1>> is 'T<tag>', <<tagh, n>> is 'T<tag>_%02d' % n.
\* An accessor is bound to a T object or to a binary string.  A T object that
\* is also in self.items is the same object there, so its binding is Ref(i),
\* the index in items; a T object that only the accessor still holds (a child
\* of before a re-parse) is Old(o); a binary string is Bin(v).
Ref(i) == [ref |-> i]

Bin(v) == [bin |-> v]

Old(o) == [old |-> o]

IsRef(e) == "ref" \in DOMAIN e

\* what getattr(self, name) returns (None when the name is not bound)
Attr(o, a) ==
    IF a \notin DOMAIN o.dict THEN None
    ELSE LET e == o.dict[a] IN
         IF IsRef(e) THEN o.items[e.ref]
         ELSE IF "bin" \in DOMAIN e THEN e.bin ELSE e.old

\* "self.items = []" (lines 252, 290): the accessors keep the objects alive
Detach(o) ==
    [a \in DOMAIN o.dict |->
        IF IsRef(o.dict[a]) THEN Old(o.items[o.dict[a].ref]) ELSE o.dict[a]]

Unq(th) == <<th, -1>>

Num(th, n) == <<th, n>>

DictSet(d, k, x) == [a \in (DOMAIN d) \cup {k} |-> IF a = k THEN x ELSE d[a]]

DictDel(d, k) == [a \in (DOMAIN d) \ {k} |-> d[a]]

RECURSIVE NextFree(_, _, _)
\* "while (tagName + '_%02d' % ctr) in self.__dict__: ctr += 1"
NextFree(d, th, ctr) ==
    IF Num(th, ctr) \in DOMAIN d THEN NextFree(d, th, ctr + 1) ELSE ctr

\* lines 276-282: d already holds the renamed single tag
AddNumbered(d, th, x) == DictSet(d, Num(th, NextFree(d, th, 0)), x)

\* an accessor that is always bound under the numbered name T<tag>_00
SetAccessorNumbered(d, th, x) == DictSet(d, Num(th, 0), x)

\* lines 270-284 (and 298-312): bind the accessor of tag th to x
SetAccessor(d, th, x) ==
    IF Unq(th) \in DOMAIN d
    THEN AddNumbered(DictSet(DictDel(d, Unq(th)), Num(th, 0), d[Unq(th)]), th, x)
    ELSE DictSet(d, Unq(th), x)

\* lines 227-234 of _parse: the length field at the head of d1, for the tag t;
\* an index past the end of a Python string raises IndexError
ParseLength(t, d1) ==
    IF Len(d1) = 0 THEN [exc |-> "IndexError"]
    ELSE IF d1[1] >= 128
    THEN IF Len(d1) < 2 THEN [exc |-> "IndexError"]
         ELSE [exc |-> "", t |-> t, l |-> d1[1] * 256 + d1[2],
               lenb |-> Take(d1, 2), rest |-> Drop(d1, 2)]
    ELSE [exc |-> "", t |-> t, l |-> d1[1],
          lenb |-> Take(d1, 1), rest |-> Drop(d1, 1)]

\* lines 220-234 of _parse: tag and length field cut from data
ParseHeader(data) ==
    IF Len(data) = 0 THEN [exc |-> "IndexError"]
    ELSE IF data[1] % 32 = 31
    THEN IF Len(data) < 2 THEN [exc |-> "IndexError"]
         ELSE ParseLength(<<data[1], data[2]>>, Drop(data, 2))
    ELSE ParseLength(<<data[1]>>, Drop(data, 1))

\* lines 236-255 (290-296): the attributes _parse assigns before it looks at
\* the value; v = data[:l] is a slice, cut short when fewer bytes are left
Assigned(self, data, h, v) ==
    [self EXCEPT !.lenb = h.lenb, !.tag = h.t, !.tagh = tohex(h.t),
                 !.len = h.l, !.raw = data, !.rawh = tohex(data),
                 !.header = h.t \o h.lenb,
                 !.remlen = Len(h.t) + Len(h.lenb) + Len(v),
                 !.constructed = ((h.t[1] \div 32) % 2 = 1),
                 !.count = 0, !.items = <<>>, !.dict = Detach(self),
                 !.v = v, !.vh = tohex(v)]

\* lines 282-285: the child ncls gets its accessor and joins items
Appended(self, ncls) ==
    [self EXCEPT !.dict = SetAccessor(@, Upper(tohex(ncls.tag)), Ref(Len(self.items) + 1)),
                 !.items = Append(@, ncls)]

RECURSIVE ParseT(_, _)
RECURSIVE ParseItems(_, _)
RECURSIVE NewT(_, _)

\* lines 260-285: r is what T(tohex(v), depth+1) gave for the rest v
ParseItem(self, v, r) ==
    IF r.exc # "" THEN [exc |-> r.exc, obj |-> self]
    ELSE ParseItems(Appended(self, r.obj), Drop(v, r.obj.remlen))

\* the loop of lines 257-285 over the rest v of a constructed value
ParseItems(self, v) ==
    IF Len(v) = 0 THEN [exc |-> "", obj |-> self]
    ELSE ParseItem([self EXCEPT !.count = @ + 1], v, NewT(tohex(v), self.depth + 1))

\* lines 249-312: s1 is self with the attributes of Assigned
ParseValue(s1, v) ==
    IF s1.constructed
    THEN ParseItems(s1, v)
    ELSE [exc |-> "",
          obj |-> [s1 EXCEPT !.dict = SetAccessor(@, Upper(tohex(s1.tag)), Bin(v))]]

\* _parse after the header h was read
ParseBody(self, data, h) ==
    IF h.exc # "" THEN [exc |-> h.exc, obj |-> self]
    ELSE ParseValue(Assigned(self, data, h, Take(h.rest, h.l)), Take(h.rest, h.l))

\* T._parse(self, data): the result's obj is self as the call leaves it, also
\* when it raises part-way
ParseT(self, data) == ParseBody(self, data, ParseHeader(data))

\* line 156: self._parse(fromhex(arg1))
ParseBin(b, depth) ==
    IF b.exc # "" THEN [exc |-> b.exc, obj |-> Fresh(depth)]
    ELSE ParseT(Fresh(depth), b.val)

\* T(arg1, depth=depth): the parsing mode of __init__ (lines 153-158)
NewT(arg1, depth) ==
    IF Len(arg1) = 0 THEN [exc |-> "Exception", obj |-> Fresh(depth)]
    ELSE ParseBin(fromhex(arg1), depth)

RECURSIVE SetDepth(_, _)
\* T._setdepth(self, depth)
SetDepth(o, depth) ==
    IF o.constructed
    THEN [o EXCEPT !.depth = depth,
                   !.items = [i \in 1..Len(o.items) |-> SetDepth(o.items[i], depth + 1)]]
    ELSE [o EXCEPT !.depth = depth]

RECURSIVE MakeItems(_, _, _)

\* line 141: r is what T(item, depth+1) gave for the string heading value
MakeItem(value, depth, acc, r) ==
    IF r.exc # "" THEN [exc |-> r.exc, items |-> acc]
    ELSE MakeItems(Tail(value), depth, Append(acc, r.obj))

\* the loop of lines 138-147: acc is the list "items" so far; a string is
\* parsed into a T object, a T object is taken as it is
MakeItems(value, depth, acc) ==
    IF Len(value) = 0 THEN [exc |-> "", items |-> acc]
    ELSE IF Head(value).kind = "str"
    THEN MakeItem(value, depth, acc, NewT(Head(value).s, depth + 1))
    ELSE IF Head(value).kind = "T"
    THEN MakeItems(Tail(value), depth, Append(acc, SetDepth(Head(value).obj, depth + 1)))
    ELSE [exc |-> "Exception", items |-> acc]

\* "".join( t.raw for t in items )
JoinRaw(items) == Join([i \in 1..Len(items) |-> items[i].raw])

\* line 148: m is what the loop over the items gave
ItemsValue(m) ==
    IF m.exc # "" THEN [exc |-> m.exc, val |-> <<>>]
    ELSE [exc |-> "", val |-> JoinRaw(m.items)]

\* lines 128-150: the binary value to encode under the binary tag.
\* arg2 is [kind |-> "str", s |-> hex text], [kind |-> "T", obj |-> a T object]
\* or [kind |-> "list", items |-> a sequence of the first two]
BuildValue(tag, arg2, depth) ==
    IF ~constructed(tag).val
    THEN IF arg2.kind # "str" THEN [exc |-> "AssertionError", val |-> <<>>]
         ELSE fromhex(arg2.s)
    ELSE ItemsValue(MakeItems(IF arg2.kind = "list" THEN arg2.items ELSE <<arg2>>,
                              depth, <<>>))

\* lines 150-152 (164-165): data is what maketlv gave
ParseMade(self, data) ==
    IF data.exc # "" THEN [exc |-> data.exc, obj |-> self]
    ELSE ParseT(self, data.val)

\* lines 131 and 150: value is what BuildValue gave
BuildData(tag, value, depth) ==
    IF value.exc # "" THEN [exc |-> value.exc, obj |-> Fresh(depth)]
    ELSE ParseMade(Fresh(depth), maketlv(tag, value.val))

\* lines 124-126: tg is fromhex(arg1)
BuildTag(arg1, arg2, depth, tg) ==
    IF ~validhex(arg1) THEN [exc |-> "AssertionError", obj |-> Fresh(depth)]
    ELSE IF tg.exc # "" THEN [exc |-> tg.exc, obj |-> Fresh(depth)]
    ELSE IF ~validhextag(arg1) THEN [exc |-> "AssertionError", obj |-> Fresh(depth)]
    ELSE BuildData(tg.val, BuildValue(tg.val, arg2, depth), depth)

\* T(arg1, arg2, depth): the building mode of __init__ (lines 121-152)
BuildT(arg1, arg2, depth) == BuildTag(arg1, arg2, depth, fromhex(arg1))

\* T.add(self, item): item is [kind |-> "T", obj |-> ...] or a string, which
\* has no attribute raw
AddT(self, item) ==
    IF item.kind # "T" THEN [exc |-> "AttributeError", obj |-> self]
    ELSE ParseMade(self, maketlv(self.tag, JoinRaw(Append(self.items, item.obj))))

RECURSIVE search(_, _)
\* T.search(self, tag)
search(self, tag) ==
    IF self.constructed
    THEN Join([i \in 1..Len(self.items) |-> search(self.items[i], tag)])
    ELSE IF tag = self.tagh THEN <<self>> ELSE <<>>

\* a findone that takes the first match and never reports an ambiguity
FindOneOfFirst(results) ==
    IF Len(results) = 0 THEN [exc |-> "", val |-> None]
    ELSE [exc |-> "", val |-> results[1]]

\* lines 191-193: results is what search gave
FindOneOf(results) ==
    IF Len(results) = 1 THEN [exc |-> "", val |-> results[1]]
    ELSE IF Len(results) = 0 THEN [exc |-> "", val |-> None]
    ELSE [exc |-> "Exception", val |-> None]

\* T.findone(self, tag)
findone(self, tag) == FindOneOf(search(self, tag))

\* ------------------------------------------------------------------ inputs
Str(h) == [kind |-> "str", s |-> h]

Obj(o) == [kind |-> "T", obj |-> o]

List(xs) == [kind |-> "list", items |-> xs]

\* T(tag, value) for binary tag and value, as the tests write it
Prim(tag, value) == BuildT(tohex(tag), Str(tohex(value)), 0).obj

Cons(tag, kids) ==
    BuildT(tohex(tag), List([i \in 1..Len(kids) |-> Obj(kids[i])]), 0).obj

\* tags 84, 88, 5F2D (primitive) and 6F, A5 (constructed)
Tag84 == <<132>>

Tag88 == <<136>>

Tag5F2D == <<95, 45>>

Tag6F == <<111>>

TagA5 == <<165>>

\* value lengths around the two length-field thresholds (128 and 256)
LongLens == {OneByteLimit \div 2 - 1, OneByteLimit \div 2, OneByteLimit - 1, OneByteLimit}

PrimValues == {<<>>, <<2>>, <<101, 110>>} \cup {Fill(65, n) : n \in LongLens}

\* the T objects given as children to a building T(...) and to add()
KidA == Prim(Tag84, <<2>>)

KidB == Prim(Tag5F2D, <<101, 110>>)

KidC == Cons(TagA5, <<Prim(Tag88, <<2>>), KidB>>)

KidD == Cons(TagA5, <<>>)

KidE == Prim(Tag84, Fill(65, OneByteLimit \div 2 - 1))

Kids == {KidA, KidC, KidE}

SeqsUpTo(S, n) == UNION {[1..k -> S] : k \in 0..n}

\* tag texts: four of the tags, a lower-case spelling, an odd-length text and 9F,
\* one byte whose low five bits announce a second tag byte
TagTexts ==
    {tohex(t) : t \in {Tag84, Tag5F2D, Tag6F, TagA5}}
        \cup {Lower(tohex(Tag5F2D)), <<56>>, tohex(<<159>>)}

BuildArgs ==
    {Str(tohex(v)) : v \in PrimValues}
        \cup {Str(Lower(tohex(<<171>>))), Str(<<48>>), Str(tohex(KidA.raw)), Obj(KidB)}
        \cup {List(<<Obj(KidB), Obj(KidD)>>), List(<<Obj(KidC), Obj(KidD), Obj(KidC)>>)}
        \cup {List([i \in 1..Len(ks) |-> Obj(ks[i])]) : ks \in SeqsUpTo(Kids, MaxKids)}
        \cup {List(<<Str(tohex(KidA.raw)), Obj(KidC)>>)}

\* k children of tag 84 with values 1..k inside a 6F
Siblings(k) == <<111, 3 * k>> \o Join([i \in 1..k |-> <<132, 1, i>>])

\* 6F1A840E315041592E5359532E4444463031A5088801025F2D02656E (run_tests, TEST1)
Test1 ==
    <<111, 26, 132, 14, 49, 80, 65, 89, 46, 83, 89, 83, 46, 68, 68, 70, 48, 49,
      165, 8, 136, 1, 2, 95, 45, 2, 101, 110>>

ParseBytes ==
    {Test1, Take(Test1, 27), Take(Test1, 20), Take(Test1, 3), Take(Test1, 1),
     <<132, 5, 1, 2>>, <<111, 4, 132, 5, 1, 2>>, <<132, 1, 2, 255, 255>>,
     <<95>>, <<132, 129, 2, 7, 7>>, <<132, 129>>,
     <<111, 8, 165, 2, 132, 0, 165, 2, 132, 0>>,
     <<111, 6, 132, 1, 1, 95, 45, 0>>}
        \cup {Siblings(k) : k \in 1..MaxSiblings}

ParseTexts ==
    {tohex(b) : b \in ParseBytes}
        \cup {Lower(tohex(Test1)), <<>>, <<56, 52, 48>>, <<56, 52, 48, 71>>}

AddItems == {Obj(k) : k \in Kids} \cup {Str(tohex(KidA.raw))}

SearchTags ==
    {tohex(t) : t \in {Tag84, Tag5F2D, TagA5}} \cup {Lower(tohex(Tag5F2D))}

Queries == {"search", "findone"}

\* ----------------------------------------------------------------- actions
Init ==
    /\ obj = None
    /\ pre = None
    /\ op = [name |-> "init"]
    /\ exc = ""
    /\ out = None
    /\ adds = 0

\* "t = T(...)" gave r
Made(r, call) ==
    /\ obj' = IF r.exc = "" THEN r.obj ELSE None
    /\ pre' = None
    /\ op' = call
    /\ exc' = r.exc
    /\ out' = None
    /\ adds' = 0

\* t = T(arg1, arg2): a behaviour follows one object from its construction
Build ==
    /\ op.name = "init"
    /\ \E arg1 \in TagTexts, arg2 \in BuildArgs :
        Made(BuildT(arg1, arg2, 0), [name |-> "build", arg1 |-> arg1, arg2 |-> arg2])

\* t = T(arg1)
Parse ==
    /\ op.name = "init"
    /\ \E arg1 \in ParseTexts :
        Made(NewT(arg1, 0), [name |-> "parse", arg1 |-> arg1])

\* "t.add(item)" gave r
Added(r, item) ==
    /\ obj' = r.obj
    /\ pre' = obj
    /\ op' = [name |-> "add", item |-> item]
    /\ exc' = r.exc
    /\ out' = None
    /\ adds' = adds + 1

\* t.add(item).  A query leaves obj as it is, so an add or a query that follows
\* a query reaches the state it reaches without that query; both are taken
\* from the states no query has led to.
Add ==
    /\ obj # None
    /\ op.name \notin Queries
    /\ adds < MaxAdds
    /\ \E item \in AddItems : Added(AddT(obj, item), item)

\* t.search(tag)
Search ==
    /\ obj # None
    /\ op.name \notin Queries
    /\ \E tag \in SearchTags :
        /\ out' = search(obj, tag)
        /\ op' = [name |-> "search", tag |-> tag]
        /\ exc' = ""
        /\ pre' = obj
        /\ UNCHANGED <<obj, adds>>

\* "t.findone(tag)" gave r
Found(r, tag) ==
    /\ out' = r.val
    /\ op' = [name |-> "findone", tag |-> tag]
    /\ exc' = r.exc
    /\ pre' = obj
    /\ UNCHANGED <<obj, adds>>

\* t.findone(tag)
FindOne ==
    /\ obj # None
    /\ op.name \notin Queries
    /\ \E tag \in SearchTags : Found(findone(obj, tag), tag)

Next == Build \/ Parse \/ Add \/ Search \/ FindOne

Spec == Init /\ [][Next]_vars

\* ------------------------------------------------------- what the claims use
RECURSIVE Nodes(_)
\* every node of the tree under o, o included
Nodes(o) == {o} \cup UNION {Nodes(o.items[i]) : i \in 1..Len(o.items)}

RECURSIVE Shape(_)
\* a node as the data model has it: tag, decoded length, value, children
Shape(o) ==
    [tag |-> o.tag, len |-> o.len, v |-> o.v,
     kids |-> [i \in 1..Len(o.items) |-> Shape(o.items[i])]]

Shapes(items) == [i \in 1..Len(items) |-> Shape(items[i])]

\* the encoding of a node alone: tag bytes, length bytes, value bytes
Enc(o) == o.tag \o o.lenb \o o.v

\* a tag as the data model has it: one byte, or two when the low five bits of
\* the first are all 1
WellFormedTag(t) ==
    \/ Len(t) = 1 /\ t[1] % 32 # 31
    \/ Len(t) = 2 /\ t[1] % 32 = 31

ValidTagText(h) == validhextag(h) /\ WellFormedTag(fromhex(h).val)

\* a tree in which every node has a one-byte length field and a value as long
\* as that field declares
Plain(o) == \A n \in Nodes(o) : Len(n.lenb) = 1 /\ n.len = Len(n.v)

IsPrimText(h) == ValidTagText(h) /\ ~constructed(fromhex(h).val).val

IsConsText(h) == ValidTagText(h) /\ constructed(fromhex(h).val).val

\* the value a building call was given: a flat even-length hex string for a
\* primitive tag, a list of T objects for a constructed one
ValidPrimBuild ==
    /\ op.name = "build"
    /\ IsPrimText(op.arg1)
    /\ op.arg2.kind = "str"
    /\ fromhex(op.arg2.s).exc = ""

ValidConsBuild ==
    /\ op.name = "build"
    /\ IsConsText(op.arg1)
    /\ op.arg2.kind = "list"
    /\ \A i \in 1..Len(op.arg2.items) :
          op.arg2.items[i].kind = "T" /\ Plain(op.arg2.items[i].obj)

GivenKids == [i \in 1..Len(op.arg2.items) |-> Shape(op.arg2.items[i].obj)]

\* ------------------------------------------------------------------ claims

\* C1: round trip.  For every valid tag and value, T(tag, value) returns a
\* node whose raw, parsed again, gives the same raw, and whose tag, decoded
\* length and value (primitive) or children (constructed) are those given.
C1_RoundTrip ==
    /\ ValidPrimBuild =>
          /\ exc = ""
          /\ obj # None
          /\ NewT(tohex(obj.raw), 0).exc = ""
          /\ NewT(tohex(obj.raw), 0).obj.raw = obj.raw
          /\ obj.tag = fromhex(op.arg1).val
          /\ obj.len = Len(fromhex(op.arg2.s).val)
          /\ obj.v = fromhex(op.arg2.s).val
    /\ ValidConsBuild =>
          /\ exc = ""
          /\ obj # None
          /\ NewT(tohex(obj.raw), 0).exc = ""
          /\ NewT(tohex(obj.raw), 0).obj.raw = obj.raw
          /\ obj.tag = fromhex(op.arg1).val
          /\ obj.len = Len(JoinRaw([i \in 1..Len(op.arg2.items) |-> op.arg2.items[i].obj]))
          /\ Shapes(obj.items) = GivenKids

\* C2: parsing rejects truncated buffers.  A parse that returns a node returns
\* no node, at the root or below, whose value is shorter than the length its
\* length field declares.
C2_TruncatedRejected ==
    (op.name = "parse" /\ exc = "") =>
        \A n \in Nodes(obj) : Len(n.v) = n.len

\* C3: in every tree that Parse or Build returns, the raw of every node is the
\* encoding of that node alone (tag, length, value bytes and nothing after),
\* and the value of a constructed node is its children's raws in order.
\* (Taken on the trees in which every node has its whole value, built from a
\* valid tag and value or parsed.)
C3_RawIsOwnEncoding ==
    (/\ op.name = "parse" \/ ValidPrimBuild \/ ValidConsBuild
     /\ exc = ""
     /\ Plain(obj)) =>
        \A n \in Nodes(obj) :
            /\ n.raw = Enc(n)
            /\ n.constructed => n.v = JoinRaw(n.items)

\* C4: add appends exactly one child.  After add(c) on a constructed node the
\* children are the previous children followed by c, the value is the
\* concatenation of the children's encodings, and length and raw are derived
\* from that value.  (Taken on a node for which all this holds before the add,
\* with a value that stays below 128 bytes.)
C4_AddAppendsOne ==
    (/\ op.name = "add"
     /\ op.item.kind = "T"
     /\ pre.constructed
     /\ Plain(pre) /\ Plain(op.item.obj)
     /\ pre.v = Join([i \in 1..Len(pre.items) |-> Enc(pre.items[i])])
     /\ pre.raw = Enc(pre)
     /\ Len(pre.v) + Len(op.item.obj.raw) < OneByteLimit \div 2) =>
        /\ exc = ""
        /\ Shapes(obj.items) = Append(Shapes(pre.items), Shape(op.item.obj))
        /\ obj.v = Join([i \in 1..Len(obj.items) |-> Enc(obj.items[i])])
        /\ obj.len = Len(obj.v)
        /\ obj.raw = Enc(obj)

\* C5: sibling tag collisions are preserved.  After a parse every immediate
\* child is bound to an accessor of its own tag, however many siblings share
\* that tag: no later sibling takes the accessor of an earlier one away.
C5_SiblingsAddressable ==
    (op.name = "parse" /\ exc = "" /\ obj.constructed) =>
        \A i \in 1..Len(obj.items) :
            \E a \in DOMAIN obj.dict :
                a[1] = obj.items[i].tagh /\ obj.dict[a] = Ref(i)

\* C6: add on a primitive node fails with an error and leaves the node's tag,
\* length, value and raw unchanged.
C6_AddOnPrimitiveFails ==
    (op.name = "add" /\ ~pre.constructed) =>
        /\ exc # ""
        /\ obj.tag = pre.tag
        /\ obj.len = pre.len
        /\ obj.v = pre.v
        /\ obj.raw = pre.raw

RECURSIVE Matching(_, _)
\* the nodes under o (o included) whose tag's hex text is tag, depth first
Matching(o, tag) ==
    (IF o.tagh = tag THEN <<o>> ELSE <<>>)
        \o Join([i \in 1..Len(o.items) |-> Matching(o.items[i], tag)])

\* C7: search(tag) returns, depth first, every node of the tree whose tag is
\* the one asked for, primitive or constructed, at any depth.  (Taken for the
\* upper-case spelling of the tag.)
C7_SearchFindsAll ==
    (op.name = "search" /\ op.tag = Upper(op.tag)) =>
        out = Matching(obj, op.tag)

C9_CaseInsensitive ==
    op.name = "search" =>
        /\ out = search(obj, Upper(op.tag))
        /\ out = search(obj, Lower(op.tag))

\* C10: the length boundary in Build.  A 255-byte value is encoded as tag +
\* 1 length byte + value, a 256-byte value as tag + 2 length bytes (the first
\* with its high bit set) + value; both parse back to the same length.
C10_LengthBoundary ==
    /\ (ValidPrimBuild /\ Len(op.arg2.s) = 2 * (OneByteLimit - 1)) =>
          /\ exc = ""
          /\ obj # None
          /\ obj.raw = fromhex(op.arg1).val \o <<OneByteLimit - 1>> \o fromhex(op.arg2.s).val
          /\ obj.len = OneByteLimit - 1
    /\ (ValidPrimBuild /\ Len(op.arg2.s) = 2 * OneByteLimit) =>
          /\ exc = ""
          /\ obj # None
          /\ Len(obj.raw) = Len(fromhex(op.arg1).val) + 2 + OneByteLimit
          /\ Take(obj.raw, Len(fromhex(op.arg1).val)) = fromhex(op.arg1).val
          /\ obj.raw[Len(fromhex(op.arg1).val) + 1] >= 128
          /\ Drop(obj.raw, Len(fromhex(op.arg1).val) + 2) = fromhex(op.arg2.s).val
          /\ obj.len = OneByteLimit

\* C11: parsing 6F1A840E315041592E5359532E4444463031A5088801025F2D02656E gives
\* a constructed root of tag 6F whose children are, in order, primitive 84
\* with value 315041592E5359532E4444463031 and constructed A5 whose children
\* are primitive 88 with value 02 and primitive 5F2D with value 656E; the
\* accessor path TA5, T5F2D on that tree gives value 656E.
C11_Test1Tree ==
    (op.name = "parse" /\ op.arg1 = tohex(Test1)) =>
        /\ exc = ""
        /\ obj # None
        /\ obj.constructed
        /\ obj.tag = Tag6F
        /\ Len(obj.items) = 2
        /\ ~obj.items[1].constructed
        /\ obj.items[1].tag = Tag84
        /\ obj.items[1].v = Take(Drop(Test1, 4), 14)
        /\ obj.items[2].constructed
        /\ obj.items[2].tag = TagA5
        /\ Len(obj.items[2].items) = 2
        /\ ~obj.items[2].items[1].constructed
        /\ obj.items[2].items[1].tag = Tag88
        /\ obj.items[2].items[1].v = <<2>>
        /\ ~obj.items[2].items[2].constructed
        /\ obj.items[2].items[2].tag = Tag5F2D
        /\ obj.items[2].items[2].v = <<101, 110>>
        /\ Attr(obj, Unq(tohex(TagA5))) # None
        /\ Attr(Attr(obj, Unq(tohex(TagA5))), Unq(tohex(Tag5F2D))) # None
        /\ Attr(Attr(obj, Unq(tohex(TagA5))), Unq(tohex(Tag5F2D))).v = <<101, 110>>

\* the parse of TEST1 returned and no call has followed
C11_Witness ==
    /\ op.name = "parse"
    /\ op.arg1 = tohex(Test1)
    /\ exc = ""
    /\ Len(obj.items) = 2

\* hex text as the spec has it: hex digits of either case, an even number
ValidHexText(h) == Len(h) % 2 = 0 /\ \A i \in 1..Len(h) : IsHexChar(h[i])

\* C12: Build fails, producing no node, whenever the tag string or the value
\* string is not valid hex text or has odd length, and whenever a primitive
\* tag is given a value that is not a flat hex string; every tag and value
\* made of valid even-length hex text is accepted.  (Acceptance is taken for
\* a well-formed primitive tag of one or two bytes and a flat value.)
C12_BuildValidation ==
    op.name = "build" =>
        /\ ~ValidHexText(op.arg1) => (exc # "" /\ obj = None)
        /\ (op.arg2.kind = "str" /\ ~ValidHexText(op.arg2.s)) =>
              (exc # "" /\ obj = None)
        /\ (ValidHexText(op.arg1) /\ IsPrimText(Upper(op.arg1)) /\ op.arg2.kind # "str") =>
              (exc # "" /\ obj = None)
        /\ (/\ ValidHexText(op.arg1)
            /\ IsPrimText(Upper(op.arg1))
            /\ op.arg2.kind = "str"
            /\ ValidHexText(op.arg2.s)) =>
              (exc = "" /\ obj # None)

\* ======================================================================
\* The trace script tools/pyscripts/scdtrace.py: parseHexfile unpacks an
\* Intel-Hex file and cuts it into transactions, SCDTrace(trace) frames the
\* (command, response) pairs of one transaction.  Text is a sequence of
\* character codes; indexes are counted from 0 as Python counts them.
\* ======================================================================

\* s[a:b] for 0 <= a
Slice(s, a, b) == Take(Drop(s, a), b - a)

\* sub occurs in s at index i
MatchAt(s, sub, i) == \A k \in 1..Len(sub) : s[i + k] = sub[k]

\* the least member of a non-empty set of integers
Least(S) == CHOOSE i \in S : \A j \in S : i <= j

FoundAt(C) == IF C = {} THEN -1 ELSE Least(C)

\* s.find(sub, start, end): the lowest index of an occurrence of sub inside
\* s[start:end], -1 when there is none
Find(s, sub, start, end) ==
    FoundAt({i \in start..((IF end < Len(s) THEN end ELSE Len(s)) - Len(sub)) :
                MatchAt(s, sub, i)})

\* a CAPDU that takes a header only from a string longer than the header
CAPDULonger(hexstring) ==
    [hexstring |-> hexstring,
     header |-> IF Len(hexstring) > 10 THEN Take(hexstring, 10) ELSE <<>>,
     data |-> IF Len(hexstring) > 10 THEN Drop(hexstring, 10) ELSE hexstring]

\* CAPDU(hexstring)
CAPDU(hexstring) ==
    [hexstring |-> hexstring,
     header |-> IF Len(hexstring) >= 10 THEN Take(hexstring, 10) ELSE <<>>,
     data |-> IF Len(hexstring) >= 10 THEN Drop(hexstring, 10) ELSE hexstring]

\* RAPDU(hexstring)
RAPDU(hexstring) ==
    [hexstring |-> hexstring,
     status |-> IF Len(hexstring) >= 4 THEN Take(hexstring, 4) ELSE <<>>,
     data |-> IF Len(hexstring) >= 4 THEN Drop(hexstring, 4) ELSE hexstring]

\* the markers: ten times 'D', 'C', 'A', 'B'
startstr == Fill(68, 10)

commandstr == Fill(67, 10)

responsestr == Fill(65, 10)

endstr == Fill(66, 10)

\* lines 77, 86, 87: the pair framed by the command marker at pos, the
\* response marker at pos2 and the next marker at nxt
PairAt(hexstring, pos, pos2, nxt) ==
    [command |-> CAPDU(Slice(hexstring, pos + Len(commandstr), pos2)),
     response |-> RAPDU(Slice(hexstring, pos2 + Len(responsestr), nxt))]

RECURSIVE ParseLoop(_, _, _)
\* lines 79-87: posc is where the next command marker was found, pose where
\* the end marker is; without either the pending pair is not appended
ParseNext(hexstring, pos, pos2, items, posc, pose) ==
    IF posc >= 0
    THEN ParseLoop(hexstring, posc, Append(items, PairAt(hexstring, pos, pos2, posc)))
    ELSE IF pose < 0 THEN items
    ELSE Append(items, PairAt(hexstring, pos, pos2, pose))

\* lines 74-76
ParseResponse(hexstring, pos, pos2, items) ==
    IF pos2 < 0 THEN items
    ELSE ParseNext(hexstring, pos, pos2, items,
                   Find(hexstring, commandstr, pos2, Len(hexstring)),
                   Find(hexstring, endstr, pos2, Len(hexstring)))

\* the while loop of SCDTrace.parse, entered with the command marker at pos
ParseLoop(hexstring, pos, items) ==
    ParseResponse(hexstring, pos,
                  Find(hexstring, responsestr, pos, Len(hexstring)), items)

\* lines 66-68
ParseCommand(hexstring, pos) ==
    IF pos < 0 THEN <<>> ELSE ParseLoop(hexstring, pos, <<>>)

\* lines 62-66
ParseStart(hexstring, start) ==
    IF start < 0 THEN <<>>
    ELSE ParseCommand(hexstring,
                      Find(hexstring, commandstr, start + Len(startstr), Len(hexstring)))

\* SCDTrace.parse(hexstring): the items of SCDTrace(hexstring)
parse(hexstring) ==
    ParseStart(hexstring, Find(hexstring, startstr, 0, Len(hexstring)))

\* lines 124-127: the record length a line is held to, 43 when the character
\* after ':' is '1' and 75 otherwise
RecordLen(line) == IF line[2] = 49 THEN 43 ELSE 75

RECURSIVE HexfileLoop(_, _)
\* lines 121-132 of parseHexfile: "for line in f", bigtrace so far.  A line
\* read from a file has at least one character; line[1] of a one-character
\* line raises IndexError.
HexfileLoop(lines, bigtrace) ==
    IF Len(lines) = 0 THEN [exc |-> "", val |-> bigtrace]
    ELSE IF Head(lines)[1] # 58 THEN [exc |-> "", val |-> bigtrace]
    ELSE IF Len(Head(lines)) < 2 THEN [exc |-> "IndexError", val |-> bigtrace]
    ELSE IF Len(Head(lines)) < RecordLen(Head(lines)) THEN [exc |-> "", val |-> bigtrace]
    ELSE HexfileLoop(Tail(lines),
                     bigtrace \o Slice(Head(lines), 9, RecordLen(Head(lines)) - 2))

\* a loop that ends after the first transaction
TraceEndOnce(bigtrace, j, k, tracelist) ==
    IF k < 0 THEN tracelist
    ELSE Append(tracelist, Slice(bigtrace, j, k + Len(endstr)))

RECURSIVE TraceLoop(_, _, _)
\* lines 139-143: the start marker was found at j, the end marker at k
TraceEnd(bigtrace, j, k, tracelist) ==
    IF k < 0 THEN tracelist
    ELSE TraceLoop(bigtrace, k + Len(endstr),
                   Append(tracelist, Slice(bigtrace, j, k + Len(endstr))))

\* lines 136-139
TraceStart(bigtrace, j, tracelist) ==
    IF j < 0 THEN tracelist
    ELSE TraceEnd(bigtrace, j, Find(bigtrace, endstr, j, Len(bigtrace)), tracelist)

\* lines 134-143 of parseHexfile: the while loop, at index i
TraceLoop(bigtrace, i, tracelist) ==
    IF i >= Len(bigtrace) THEN tracelist
    ELSE TraceStart(bigtrace, Find(bigtrace, startstr, i, Len(bigtrace)), tracelist)

\* lines 134-145, given what the first loop returned
TraceList(r) ==
    IF r.exc # "" THEN [exc |-> r.exc, val |-> <<>>]
    ELSE [exc |-> "", val |-> TraceLoop(r.val, 0, <<>>)]

\* parseHexfile(filename), for a file holding these lines
parseHexfile(lines) == TraceList(HexfileLoop(lines, <<>>))

\* --------------------------------------------------- inputs of the script
\* commands (header of 5 bytes, then data): SELECT, SELECT with two data
\* bytes, GET RESPONSE with Le = 0A
CmdSelect == tohex(<<0, 164, 4, 0, 0>>)

CmdSelectData == tohex(<<0, 164, 4, 0, 2, 160, 0>>)

CmdGetResponse == tohex(<<0, 192, 0, 0, 10>>)

Commands == {CmdSelect, CmdSelectData, CmdGetResponse}

\* responses (status of 2 bytes, then data): 9000, 6C0C, 9000 with 88 01 0B
RespOk == tohex(<<144, 0>>)

RespWrongLe == tohex(<<108, 12>>)

RespData == tohex(<<144, 0, 136, 1, 11>>)

Responses == {RespOk, RespWrongLe, RespData}

\* a pair is <<command bytes, response bytes>>, both as hex text
PairSeqs == UNION {[1..n -> Commands \X Responses] : n \in 1..MaxPairs}

Message(p) == commandstr \o p[1] \o responsestr \o p[2]

Messages(pairs) == Join([i \in 1..Len(pairs) |-> Message(pairs[i])])

\* start marker, the pairs, end marker
Stream(pairs) == startstr \o Messages(pairs) \o endstr

\* the transactions put into files
FilePairSeqs ==
    {<<<<CmdSelect, RespOk>>>>,
     <<<<CmdGetResponse, RespData>>>>,
     <<<<CmdSelectData, RespWrongLe>>, <<CmdSelect, RespData>>>>,
     <<<<CmdSelect, RespWrongLe>>, <<CmdGetResponse, RespOk>>>>}

TxnSeqs == UNION {[1..n -> FilePairSeqs] : n \in 1..MaxTraces}

\* what follows the last complete transaction: nothing, or a transaction the
\* log ends in (no end marker)
Tails ==
    {<<>>,
     startstr \o commandstr \o CmdSelect,
     startstr \o Messages(<<<<CmdSelect, RespOk>>>>)}

\* the 16 data bytes of one ":10" record, the text padded with 'F' (erased
\* EEPROM reads FF)
Chunk(s, i) ==
    [k \in 1..32 |-> IF 32 * (i - 1) + k <= Len(s) THEN s[32 * (i - 1) + k] ELSE 70]

\* ":10" address "0000" type "00", 32 data characters, checksum, newline
DataLine(chunk) == <<58, 49, 48, 48, 48, 48, 48, 48, 48>> \o chunk \o <<48, 48, 10>>

\* ":00000001FF", the end-of-file record
EofLine == <<58, 48, 48, 48, 48, 48, 48, 48, 49, 70, 70, 10>>

\* the lines of an Intel-Hex file holding the hex text s
HexLines(s) ==
    [i \in 1..((Len(s) + 31) \div 32) |-> DataLine(Chunk(s, i))] \o <<EofLine>>

FileText(txns, tail) == Join([i \in 1..Len(txns) |-> Stream(txns[i])]) \o tail

\* ------------------------------------------------- actions of the script
\* Either SCDTrace(hexstring) is called on one stream, or main() runs on a
\* file.  op is the input, with the pairs and transactions it was made of;
\* out holds the list of traces and the items of the SCDTrace objects made
\* so far.
TraceInit ==
    /\ obj = None
    /\ pre = None
    /\ adds = 0
    /\ exc = ""
    /\ \/ \E pairs \in PairSeqs :
            /\ op = [name |-> "SCDTrace", pairs |-> pairs]
            /\ out = [traces |-> <<Stream(pairs)>>, results |-> <<>>]
       \/ \E txns \in TxnSeqs, tail \in Tails :
            /\ op = [name |-> "main", txns |-> txns, tail |-> tail,
                     lines |-> HexLines(FileText(txns, tail))]
            /\ out = None

\* "traces = parseHexfile(fname)" gave r
HexfileParsed(r) ==
    /\ out' = IF r.exc = "" THEN [traces |-> r.val, results |-> <<>>] ELSE None
    /\ exc' = r.exc
    /\ UNCHANGED <<obj, pre, op, adds>>

\* traces = parseHexfile(fname)
ParseHexfile ==
    /\ op.name = "main"
    /\ out = None
    /\ exc = ""
    /\ HexfileParsed(parseHexfile(op.lines))

\* strace = SCDTrace(trace), for the next trace of the list
NewSCDTrace ==
    /\ out # None
    /\ Len(out.results) < Len(out.traces)
    /\ out' = [out EXCEPT !.results = Append(@, parse(out.traces[Len(@) + 1]))]
    /\ UNCHANGED <<obj, pre, op, exc, adds>>

TraceNext == ParseHexfile \/ NewSCDTrace

TraceSpec == TraceInit /\ [][TraceNext]_vars

\* the pair SCDTrace has to report for command bytes p[1], response bytes p[2]
ExpectedPair(p) ==
    [command |-> [hexstring |-> p[1], header |-> Take(p[1], 10), data |-> Drop(p[1], 10)],
     response |-> [hexstring |-> p[2], status |-> Take(p[2], 4), data |-> Drop(p[2], 4)]]

\* C13: trace extraction.  For a stream made of the start marker, n >= 1
\* times (command marker, command bytes, response marker, response bytes) and
\* the end marker, SCDTrace.parse gives exactly the n pairs in stream order:
\* each command is the bytes between its marker and the response marker,
\* header its first 5 bytes and data the rest; each response is the bytes up
\* to the next command or end marker, status its first 2 bytes and data the
\* rest.
C13_TraceExtraction ==
    (op.name = "SCDTrace" /\ Len(out.results) = 1) =>
        out.results[1] = [i \in 1..Len(op.pairs) |-> ExpectedPair(op.pairs[i])]

\* C14: byte alignment.  Markers are taken only at even nibble offsets, so
\* every extracted command and response consists of whole bytes.
C14_WholeBytes ==
    (out # None /\ op.name \in {"SCDTrace", "main"}) =>
        \A t \in 1..Len(out.results) :
            \A i \in 1..Len(out.results[t]) :
                /\ Len(out.results[t][i].command.hexstring) % 2 = 0
                /\ Len(out.results[t][i].response.hexstring) % 2 = 0

\* C15: several transactions in one input.  Each complete transaction is
\* extracted, in input order, and framed as it is framed alone, with as many
\* pairs as it holds; a last transaction without end marker is dropped
\* without any error.
C15_Transactions ==
    op.name = "main" =>
        /\ exc = ""
        /\ out # None =>
              /\ Len(out.traces) = Len(op.txns)
              /\ \A t \in 1..Len(out.results) :
                    /\ out.results[t] = parse(Stream(op.txns[t]))
                    /\ Len(out.results[t]) = Len(op.txns[t])

\* two complete transactions and an unterminated third, all traces framed
C15_Witness ==
    /\ op.name = "main"
    /\ Len(op.txns) = 2
    /\ Len(op.tail) > Len(startstr) + Len(commandstr) + Len(CmdSelect)
    /\ out # None
    /\ Len(out.results) = 2
    /\ Len(out.results[2]) = 2

\* ======================================================================
\* The APDU tables of tools/pytools/emv_commands.py.  A key is the text of
\* the table key ('x' is character 120); a name the functions return is
\* the sequence of its pieces, the empty string the empty sequence.
\* ======================================================================
TO_CARD == 1

TO_TERMINAL == 2

\* command = {...}: key -> (direction, name)
command ==
    <<48, 120, 99, 48>> :> <<TO_TERMINAL, "READ MORE">> @@
    <<56, 120, 49, 101>> :> <<TO_CARD, "APPLICATION BLOCK">> @@
    <<56, 120, 49, 56>> :> <<TO_CARD, "APPLICATION UNBLOCK">> @@
    <<56, 120, 49, 54>> :> <<TO_CARD, "CARD BLOCK">> @@
    <<48, 120, 56, 50>> :> <<TO_CARD, "EXTERNAL AUTHENTICATE">> @@
    <<56, 120, 97, 101>> :> <<TO_CARD, "GENERATE AC">> @@
    <<48, 120, 56, 52>> :> <<TO_TERMINAL, "GET CHALLENGE">> @@
    <<56, 120, 99, 97>> :> <<TO_TERMINAL, "GET DATA">> @@
    <<56, 120, 97, 56>> :> <<TO_CARD, "GET PROCESSING OPTIONS">> @@
    <<48, 120, 56, 56>> :> <<TO_CARD, "INTERNAL AUTHENTICATE">> @@
    <<56, 120, 50, 52>> :> <<TO_CARD, "PIN CHANGE/UNBLOCK">> @@
    <<48, 120, 98, 50>> :> <<TO_TERMINAL, "READ RECORD">> @@
    <<48, 120, 97, 52>> :> <<TO_CARD, "SELECT/READ FILE">> @@
    <<48, 120, 50, 48>> :> <<TO_CARD, "VERIFY">> @@
    <<52, 120, 52, 49>> :> <<TO_CARD, "TEST A TO CARD">> @@
    <<52, 120, 52, 50>> :> <<TO_TERMINAL, "TEST B TO TERM">>

\* response = {...}: key -> meaning
response ==
    <<54, 49, 120, 120>> :> "More data available" @@
    <<54, 51, 99, 120>> :> "NV changed" @@
    <<54, 99, 120, 120>> :> "Wrong length" @@
    <<57, 48, 48, 48>> :> "OK" @@
    <<54, 50, 48, 48>> :> "Warning: state of non-volatile memory unchanged" @@
    <<54, 50, 56, 49>> :> "Warning: part of returned data may be corrupted" @@
    <<54, 50, 56, 50>> :> "Warning: End of file/record reached before reading Le bytes" @@
    <<54, 50, 56, 51>> :> "Selected file invalidated" @@
    <<54, 50, 56, 52>> :> "FCI not formatted according to 1.1.5" @@
    <<54, 51, 48, 48>> :> "Warning: state of non-volatile memory changed" @@
    <<54, 51, 56, 49>> :> "Warning: file filled up by the last write" @@
    <<54, 52, 48, 48>> :> "Error: state of non-volatile memory unchanged" @@
    <<54, 53, 48, 48>> :> "Error: state of non-volatile memory changed" @@
    <<54, 53, 56, 49>> :> "Error: memory failure" @@
    <<54, 55, 48, 48>> :> "Wrong length" @@
    <<54, 56, 48, 48>> :> "Checking error: functions in CLA not supported" @@
    <<54, 56, 56, 49>> :> "Checking error: logical channel not supported" @@
    <<54, 56, 56, 50>> :> "Checking error: secure messaging not supported" @@
    <<54, 57, 48, 48>> :> "Checking error: command not allowed" @@
    <<54, 57, 56, 49>> :> "Checking error: Command incompatible with file structure" @@
    <<54, 57, 56, 50>> :> "Checking error: security status not satisfied" @@
    <<54, 57, 56, 51>> :> "Checking error: authentication method blocked" @@
    <<54, 57, 56, 52>> :> "Checking error: referenced data invalidated" @@
    <<54, 57, 56, 53>> :> "Checking error: conditions of use not satisfied" @@
    <<54, 57, 56, 54>> :> "Checking error: command not allowed (no current EF)" @@
    <<54, 57, 56, 55>> :> "Checking error: expected SM data objects missing" @@
    <<54, 57, 56, 56>> :> "Checking error: SM data objects incorrect" @@
    <<54, 97, 48, 48>> :> "Checking error: wrong parameters P1-P2 (a)" @@
    <<54, 97, 56, 48>> :> "Checking error: incorrect parameters in the data field" @@
    <<54, 97, 56, 49>> :> "Checking error: function not supported" @@
    <<54, 97, 56, 50>> :> "Checking error: file not found" @@
    <<54, 97, 56, 51>> :> "Checking error: record not found" @@
    <<54, 97, 56, 52>> :> "Checking error: not enough memory space in the file" @@
    <<54, 97, 56, 53>> :> "Checking error: Lc inconsistent with TLV structure" @@
    <<54, 97, 56, 54>> :> "Checking error: wrong parameters P1-P2 (b)" @@
    <<54, 97, 56, 55>> :> "Checking error: Lc inconsistent with P1-P2" @@
    <<54, 97, 56, 56>> :> "Checking error: referenced data not found" @@
    <<54, 98, 48, 48>> :> "Checking error: wrong parameters P1-P2 (c)" @@
    <<54, 100, 48, 48>> :> "Instruction code not supported or invalid" @@
    <<54, 101, 48, 48>> :> "Class not supported" @@
    <<54, 102, 48, 48>> :> "No precise diagnosis"

\* lines 141-145: the name of the entry keyed by template
CommandNameOf(template) ==
    IF template \in DOMAIN command THEN <<"(", command[template][2], ")">> ELSE <<>>

\* command_name(s): s[0] of an empty string raises IndexError
command_name(s) ==
    IF Len(s) = 0 THEN [exc |-> "IndexError", val |-> <<>>]
    ELSE [exc |-> "", val |-> CommandNameOf(<<s[1], 120>> \o Drop(s, 2))]

\* a template that never carries a single wildcard
TemplateNoSingle(r, i) == IF i = 1 THEN Take(r, 4) ELSE Take(r, 4 - i) \o Fill(120, i)

\* line 149: template = r[:4-i] + "x"*i
Template(r, i) == Take(r, 4 - i) \o Fill(120, i)

RECURSIVE ResponseLoop(_, _)
\* lines 148-152: "for i in range(3)", at i
ResponseLoop(r, i) ==
    IF i = 3 THEN <<>>
    ELSE IF Template(r, i) \in DOMAIN response
    THEN <<"(", response[Template(r, i)], ")">>
    ELSE ResponseLoop(r, i + 1)

\* response_name(r)
response_name(r) == ResponseLoop(r, 0)

\* ------------------------------------------------------------- status words
\* lower-case hex digits, as print_events passes them (data[0:4].lower())
StatusFirst == {54, 57}

StatusSecond == {48, 49, 50, 51, 97, 99, 102}

StatusThird == {48, 56, 99}

StatusFourth == {48, 49, 50, 53}

StatusWords == {<<a, b, c, d>> : a \in StatusFirst, b \in StatusSecond, c \in StatusThird, d \in StatusFourth}

\* one call of response_name on a status word
EmvInit ==
    /\ obj = None
    /\ pre = None
    /\ adds = 0
    /\ exc = ""
    /\ out = None
    /\ \E r \in StatusWords : op = [name |-> "response_name", r |-> r]

\* print response_name(r)
ResponseName ==
    /\ op.name = "response_name"
    /\ out = None
    /\ out' = [val |-> response_name(op.r)]
    /\ UNCHANGED <<obj, pre, op, exc, adds>>

EmvNext == ResponseName

EmvSpec == EmvInit /\ [][EmvNext]_vars

\* C20: response lookup is most specific first.  For a 4-nibble status word
\* response_name gives the meaning of the first of: the exact code, its first
\* 3 nibbles and one wildcard, its first 2 nibbles and two wildcards, that is
\* in the table (so an exact entry wins over a wildcard entry), and the
\* no-match result, without raising, when none is.
C20_MostSpecificFirst ==
    (op.name = "response_name" /\ out # None) =>
        /\ exc = ""
        /\ op.r \in DOMAIN response =>
              out.val = <<"(", response[op.r], ")">>
        /\ (op.r \notin DOMAIN response /\ Take(op.r, 3) \o <<120>> \in DOMAIN response) =>
              out.val = <<"(", response[Take(op.r, 3) \o <<120>>], ")">>
        /\ (/\ op.r \notin DOMAIN response
            /\ Take(op.r, 3) \o <<120>> \notin DOMAIN response
            /\ Take(op.r, 2) \o <<120, 120>> \in DOMAIN response) =>
              out.val = <<"(", response[Take(op.r, 2) \o <<120, 120>>], ")">>
        /\ (/\ op.r \notin DOMAIN response
            /\ Take(op.r, 3) \o <<120>> \notin DOMAIN response
            /\ Take(op.r, 2) \o <<120, 120>> \notin DOMAIN response) =>
              out.val = <<>>

\* 63c5 was looked up: no exact entry, the entry 63cx gave the name
C20_Witness ==
    /\ op.name = "response_name"
    /\ op.r = <<54, 51, 99, 53>>
    /\ out # None
    /\ out.val = <<"(", "NV changed", ")">>

\* ======================================================================
\* The log decoder tools/pytools/scdtrace.py: process_data unpacks an
\* Intel-Hex EEPROM dump (parse_intel_hex), cuts the log region out of it
\* (extract_log_data), clusters its records into events (split_events) and
\* prints them (print_events).
\* ======================================================================

\* self.event_dict (lines 87-111): event type -> name
event_dict ==
    0 :> "ATR Byte from ICC" @@
    1 :> "ATR Byte to Terminal" @@
    2 :> "Byte to Terminal" @@
    3 :> "Byte from Terminal" @@
    4 :> "Byte to ICC" @@
    5 :> "Byte from ICC" @@
    6 :> "ATR from USB" @@
    16 :> "Terminal clock active" @@
    17 :> "Terminal reset low" @@
    18 :> "Terminal timed out" @@
    19 :> "Error receiving byte from terminal" @@
    20 :> "Error sending byte to terminal" @@
    21 :> "No clock from terminal" @@
    32 :> "ICC activated" @@
    33 :> "ICC deactivated" @@
    34 :> "ICC reset high" @@
    35 :> "Error receiving byte from ICC" @@
    36 :> "Error sending byte to ICC" @@
    37 :> "ICC inserted" @@
    48 :> "Time data sent to ICC" @@
    49 :> "Time for a general event" @@
    50 :> "Error allocating memory" @@
    51 :> "Watchdog timer reset"

RECURSIVE HexNum(_)
\* the number a string of hex digits writes
HexNum(s) == IF Len(s) = 0 THEN 0 ELSE 16 * HexNum(Take(s, Len(s) - 1)) + HexVal(s[Len(s)])

\* int(s, 16) on text without blanks, sign or 0x prefix: ValueError on the
\* empty string and on a character that is no hex digit
int16(s) ==
    IF Len(s) = 0 \/ (\E i \in 1..Len(s) : ~IsHexChar(s[i]))
    THEN [exc |-> "ValueError", val |-> 0]
    ELSE [exc |-> "", val |-> HexNum(s)]

RECURSIVE IntelHexLoop(_, _)
\* lines 190-201 of parse_intel_hex: "for line in f", bigtrace so far.  A line
\* read from a file has at least one character; line[1] of a one-character
\* line raises IndexError.
IntelHexLoop(lines, bigtrace) ==
    IF Len(lines) = 0 THEN [exc |-> "", val |-> bigtrace]
    ELSE IF Head(lines)[1] # 58 THEN [exc |-> "", val |-> bigtrace]
    ELSE IF Len(Head(lines)) < 2 THEN [exc |-> "IndexError", val |-> bigtrace]
    ELSE IF Len(Head(lines)) < (IF Head(lines)[2] = 49 THEN 43 ELSE 75)
    THEN [exc |-> "", val |-> bigtrace]
    ELSE IntelHexLoop(Tail(lines),
                      bigtrace \o Slice(Head(lines), 9,
                                        (IF Head(lines)[2] = 49 THEN 43 ELSE 75) - 2))

\* parse_intel_hex(filename), for a file holding these lines
parse_intel_hex(lines) == IntelHexLoop(lines, <<>>)

\* a result that starts at byte 0 of the dump
LogDataFromStart(bigtrace, last_byte) ==
    IF last_byte.exc # "" THEN [exc |-> last_byte.exc, val |-> <<>>]
    ELSE [exc |-> "", val |-> Slice(bigtrace, 0, last_byte.val * 2)]

\* line 229, last_byte being what int(...) of line 228 gave
LogDataUpTo(bigtrace, last_byte) ==
    IF last_byte.exc # "" THEN [exc |-> last_byte.exc, val |-> <<>>]
    ELSE [exc |-> "", val |-> Slice(bigtrace, 128 * 2, last_byte.val * 2)]

\* extract_log_data(bigtrace)
extract_log_data(bigtrace) ==
    LogDataUpTo(bigtrace, int16(Slice(bigtrace, 72 * 2, 74 * 2)))

\* an event of events_list: the tuple (type, data)
Event(type, data) == [type |-> type, data |-> data]

\* line 254: last_type = 0xFF, "no record seen yet"
NoType == 255

\* line 282 and return: the event being gathered is appended
SplitClose(last_type, event_data, events_list) ==
    [exc |-> "", val |-> Append(events_list, Event(last_type, event_data))]

RECURSIVE SplitLoop(_, _, _, _, _)
\* lines 271-278: the record at i (past its header) has n payload bytes
SplitPayload(data, i, byte_type, n, last_type, event_data, events_list) ==
    IF byte_type # last_type
    THEN SplitLoop(data, i + 2 * n, byte_type, Slice(data, i, i + 2 * n),
                   Append(events_list, Event(last_type, event_data)))
    ELSE SplitLoop(data, i + 2 * n, last_type,
                   event_data \o Slice(data, i, i + 2 * n), events_list)

\* lines 260-269: byte_value is the header read, i is past it
SplitRecord(data, i, byte_value, last_type, event_data, events_list) ==
    IF ((byte_value % 4) + 1) * 2 > Len(data) - i
    THEN SplitClose(last_type, event_data, events_list)
    ELSE SplitPayload(data, i, (byte_value % 256) \div 4, (byte_value % 4) + 1,
                      IF last_type = NoType THEN (byte_value % 256) \div 4 ELSE last_type,
                      event_data, events_list)

\* lines 258-259: header is what int(data[i:i+2], 16) gave
SplitHeader(data, i, header, last_type, event_data, events_list) ==
    IF header.exc # "" THEN [exc |-> header.exc, val |-> events_list]
    ELSE SplitRecord(data, i + 2, header.val, last_type, event_data, events_list)

\* lines 257-279: the while loop, at i
SplitLoop(data, i, last_type, event_data, events_list) ==
    IF i >= Len(data) THEN SplitClose(last_type, event_data, events_list)
    ELSE SplitHeader(data, i, int16(Slice(data, i, i + 2)),
                     last_type, event_data, events_list)

\* split_events(data)
split_events(data) == SplitLoop(data, 0, NoType, <<>>, <<>>)

\* line 309: the four payload bytes in reverse order
TimeText(data) ==
    Slice(data, 6, 8) \o Slice(data, 4, 6) \o Slice(data, 2, 4) \o Slice(data, 0, 2)

\* lines 313-318: what the try block prints, the dump or the exception
DumpOf(r) == IF r.exc = "" THEN <<"dump", r.obj.rawh>> ELSE <<"exception", r.exc>>

\* lines 311-318
TlvText(e) ==
    IF e.type \in {2, 5} /\ Len(e.data) > 6
    THEN DumpOf(NewT(Slice(e.data, 2, Len(e.data) - 4), 0))
    ELSE <<>>

\* lines 319-323
ApduText(e) ==
    IF e.type \in {2, 5} /\ Len(e.data) = 4
    THEN response_name(Lower(Slice(e.data, 0, 4)))
    ELSE IF e.type \in {3, 4} /\ Len(e.data) = 10
    THEN command_name(Lower(Slice(e.data, 0, 4))).val
    ELSE <<>>

\* lines 306-325, time being what int(time, 16) of line 310 gave (-1 in the
\* report: no time line)
PrintTimed(e, time) ==
    IF time.exc # ""
    THEN [exc |-> time.exc,
          val |-> [event |-> e.type, name |-> event_dict[e.type], data |-> e.data,
                   time |-> -1, tlv |-> <<>>, apdu |-> <<>>]]
    ELSE [exc |-> "",
          val |-> [event |-> e.type, name |-> event_dict[e.type], data |-> e.data,
                   time |-> IF e.type \in {48, 49} THEN (time.val * 1024) \div 1000 ELSE -1,
                   tlv |-> TlvText(e), apdu |-> ApduText(e)]]

\* lines 305-325 for one event: self.event_dict[event_type] raises KeyError
\* before anything of the event is printed
PrintEvent(e) ==
    IF e.type \notin DOMAIN event_dict
    THEN [exc |-> "KeyError", val |-> None]
    ELSE PrintTimed(e, IF e.type \in {48, 49} THEN int16(TimeText(e.data))
                       ELSE [exc |-> "", val |-> 0])

RECURSIVE PrintLoop(_, _, _)
\* one turn of the loop of line 304: r is what printing event k gave
PrintStep(events_list, k, printed, r) ==
    IF r.exc = "" THEN PrintLoop(events_list, k + 1, Append(printed, r.val))
    ELSE [exc |-> r.exc,
          val |-> IF r.val = None THEN printed ELSE Append(printed, r.val)]

\* line 304: "for event_type, data in events_list", at event k
PrintLoop(events_list, k, printed) ==
    IF k > Len(events_list) THEN [exc |-> "", val |-> printed]
    ELSE PrintStep(events_list, k, printed, PrintEvent(events_list[k]))

\* print_events(events_list): what was printed and the exception, if any
print_events(events_list) == PrintLoop(events_list, 1, <<>>)

\* ------------------------------------------------------ inputs of the decoder
\* a log record: [type, payload], payload 1 to 4 bytes as hex text
Record(type, payload) == [type |-> type, payload |-> payload]

\* header byte XXXXXXYY and the payload
RecordHex(r) == tohex(<<r.type * 4 + (Len(r.payload) \div 2 - 1)>>) \o r.payload

\* byte from terminal (2 bytes, 1 byte), byte from ICC (2 bytes), time of a
\* general event (4 bytes), a type event_dict does not have (1 byte)
LogRecords ==
    {Record(3, tohex(<<0, 164>>)), Record(3, tohex(<<4>>)),
     Record(5, tohex(<<144, 0>>)), Record(49, tohex(<<16, 39, 0, 0>>)),
     Record(62, tohex(<<0>>))}

RecordSeqs == UNION {[1..n -> LogRecords] : n \in 0..MaxRecords}

\* what the region ends in after its complete records: nothing, a header
\* announcing 4 bytes followed by 2, a header alone
LogTails == {<<>>, tohex(<<15, 0, 164>>), tohex(<<20>>)}

Region(records, tail) == Join([i \in 1..Len(records) |-> RecordHex(records[i])]) \o tail

\* the 128 bytes of metadata: zeroes, with ptr (4 hex digits) in bytes 72-73
Meta(ptr) == [k \in 1..256 |-> IF k > 144 /\ k <= 148 THEN ptr[k - 144] ELSE 48]

\* the address of the byte after the region
EndOf(region) == tohex(<<(128 + Len(region) \div 2) \div 256, (128 + Len(region) \div 2) % 256>>)

\* the dump of an EEPROM holding the region
Dump(region) == Meta(EndOf(region)) \o region

\* ":20" record: 64 data characters
LongLine(chunk) == <<58, 50, 48, 48, 48, 48, 48, 48, 48>> \o chunk \o <<48, 48, 10>>

Chunk64(s, i) ==
    [k \in 1..64 |-> IF 64 * (i - 1) + k <= Len(s) THEN s[64 * (i - 1) + k] ELSE 70]

LongLines(s) ==
    [i \in 1..((Len(s) + 63) \div 64) |-> LongLine(Chunk64(s, i))] \o <<EofLine>>

\* the dump the damaged files are made of: two records of type 3
SampleRegion == Region(<<Record(3, tohex(<<0, 164>>)), Record(3, tohex(<<4>>))>>, <<>>)

SampleLines == HexLines(Dump(SampleRegion))

\* files that are no clean dump: empty, end-of-file record only, a dump cut
\* after the ':' of its last line, with a blank line or a short record in the
\* middle, in ":20" records, starting with a comment, an erased pointer (FFFF),
\* a pointer into the metadata
OddFiles ==
    {<<>>,
     <<EofLine>>,
     SubSeq(SampleLines, 1, Len(SampleLines) - 1) \o <<<<58>>>>,
     SubSeq(SampleLines, 1, 3) \o <<<<10>>>> \o SubSeq(SampleLines, 4, Len(SampleLines)),
     SubSeq(SampleLines, 1, 8) \o <<<<58, 49, 48, 48, 48, 10>>>> \o SubSeq(SampleLines, 9, Len(SampleLines)),
     LongLines(Dump(SampleRegion)),
     <<<<35, 10>>>> \o SampleLines,
     HexLines(Meta(<<70, 70, 70, 70>>) \o SampleRegion),
     HexLines(Meta(<<48, 48, 52, 48>>) \o SampleRegion)}

\* ------------------------------------------------- actions of the decoder
\* op is the file process_data is run on (for a clean dump with the records
\* and the tail its region was made of); out is the SCDTrace object: the
\* attributes process_data has set, the report printed, and the step that
\* ran last (exc tells whether it raised).
LogInit ==
    /\ obj = None
    /\ pre = None
    /\ adds = 0
    /\ exc = ""
    /\ out = None
    /\ \/ \E records \in RecordSeqs, tail \in LogTails :
            op = [name |-> "process_data", kind |-> "dump",
                  records |-> records, tail |-> tail,
                  lines |-> HexLines(Dump(Region(records, tail)))]
       \/ \E lines \in OddFiles :
            op = [name |-> "process_data", kind |-> "odd", lines |-> lines]

\* line 164 gave r
Unpacked(r) ==
    /\ out' = [stage |-> "parse_intel_hex",
               bigtrace |-> r.val, log_data |-> <<>>, events_list |-> <<>>,
               printed |-> <<>>]
    /\ exc' = r.exc
    /\ UNCHANGED <<obj, pre, op, adds>>

\* self.bigtrace = self.parse_intel_hex(self.filename)
ParseIntelHex ==
    /\ op.name = "process_data"
    /\ out = None
    /\ exc = ""
    /\ Unpacked(parse_intel_hex(op.lines))

\* lines 165-168 gave r: "No data available" ends process_data
Extracted(r) ==
    /\ out' = [out EXCEPT !.stage = IF r.exc = "" /\ Len(r.val) < 2 THEN "No data available"
                                    ELSE "extract_log_data",
                          !.log_data = r.val]
    /\ exc' = r.exc
    /\ UNCHANGED <<obj, pre, op, adds>>

\* self.log_data = self.extract_log_data(self.bigtrace)
ExtractLogData ==
    /\ op.name = "process_data"
    /\ out # None
    /\ out.stage = "parse_intel_hex"
    /\ exc = ""
    /\ Extracted(extract_log_data(out.bigtrace))

\* line 171 gave r
Split(r) ==
    /\ out' = [out EXCEPT !.stage = "split_events",
                          !.events_list = r.val]
    /\ exc' = r.exc
    /\ UNCHANGED <<obj, pre, op, adds>>

\* self.events_list = self.split_events(self.log_data)
SplitEvents ==
    /\ op.name = "process_data"
    /\ out # None
    /\ out.stage = "extract_log_data"
    /\ exc = ""
    /\ Split(split_events(out.log_data))

\* line 172 gave r
Printed(r) ==
    /\ out' = [out EXCEPT !.stage = "print_events",
                          !.printed = r.val]
    /\ exc' = r.exc
    /\ UNCHANGED <<obj, pre, op, adds>>

\* self.print_events(self.events_list, verbose)
PrintEvents ==
    /\ op.name = "process_data"
    /\ out # None
    /\ out.stage = "split_events"
    /\ exc = ""
    /\ Printed(print_events(out.events_list))

LogNext == ParseIntelHex \/ ExtractLogData \/ SplitEvents \/ PrintEvents

LogSpec == LogInit /\ [][LogNext]_vars

RECURSIVE Coalesce(_, _)
\* the maximal runs of adjacent records of one type, each with its type and
\* the payloads of the run joined in order
Coalesce(records, acc) ==
    IF Len(records) = 0 THEN acc
    ELSE IF Len(acc) > 0 /\ acc[Len(acc)].type = Head(records).type
    THEN Coalesce(Tail(records),
                  [acc EXCEPT ![Len(acc)].data = @ \o Head(records).payload])
    ELSE Coalesce(Tail(records),
                  Append(acc, [type |-> Head(records).type, data |-> Head(records).payload]))

\* split_events was called on the region of a clean dump and is over
SplitCalled ==
    /\ op.name = "process_data"
    /\ op.kind = "dump"
    /\ out # None
    /\ out.stage \in {"split_events", "print_events"}

\* C16: event declustering.  For any log region split_events returns exactly
\* the maximal runs of adjacent complete records of one type, in log order,
\* each with the run's type (top 6 bits of the header) and the run's payloads
\* (low 2 bits + 1 bytes each) joined in order.
C16_Declustering ==
    SplitCalled => out.events_list = Coalesce(op.records, <<>>)

\* C17: truncated log.  When the region ends in the middle of a record,
\* split_events raises nothing and returns exactly the events of the complete
\* records before the truncated one, however many (none included) there are.
C17_TruncatedLog ==
    (SplitCalled /\ Len(op.tail) > 0) =>
        /\ ~(out.stage = "split_events" /\ exc # "")
        /\ Len(out.events_list) = Len(Coalesce(op.records, <<>>))
        /\ \A k \in 1..Len(out.events_list) :
              out.events_list[k] = Coalesce(op.records, <<>>)[k]

\* a line the unpacking stops at: no ':' first, or shorter than the record
\* length its second character announces
Rejected(line) ==
    \/ line[1] # 58
    \/ Len(line) < (IF Len(line) >= 2 /\ line[2] = 49 THEN 43 ELSE 75)

\* the lines before the first rejected one
Accepted(lines) ==
    SubSeq(lines, 1,
           Least({i \in 1..(Len(lines) + 1) :
                     i = Len(lines) + 1 \/ Rejected(lines[i])}) - 1)

\* characters 9 up to 2 before the record length
Payload(line) == Slice(line, 9, (IF line[2] = 49 THEN 43 ELSE 75) - 2)

\* C18: Intel-Hex unpacking.  The result is the payloads, joined in line
\* order, of the lines before the first one that does not start with ':' or
\* is shorter than its record length (43 after ":1", 75 otherwise); no later
\* line adds anything and stopping raises no error.
C18_Unpacking ==
    (op.name = "process_data" /\ out # None) =>
        /\ ~(out.stage = "parse_intel_hex" /\ exc # "")
        /\ out.bigtrace =
              Join([i \in 1..Len(Accepted(op.lines)) |-> Payload(Accepted(op.lines)[i])])

\* C19: the decoder never crashes.  On every input process_data runs to its
\* end without raising.
C19_NeverCrashes ==
    op.name = "process_data" => exc = ""

\* ----------------------------------------------------------- command lookup
\* a template that keeps the second nibble
ToCardTemplateExact(s) == s

\* line 130: template = s[0]+"x"+s[2:]
ToCardTemplate(s) == <<s[1], 120>> \o Drop(s, 2)

\* lines 132-138: the direction of the entry keyed by template; without an
\* entry a warning is printed and True returned
ToCardOf(template) ==
    IF template \in DOMAIN command
    THEN [exc |-> "", val |-> command[template][1] = TO_CARD, warned |-> FALSE]
    ELSE [exc |-> "", val |-> TRUE, warned |-> TRUE]

\* lines 125-130: s is b2a_hex(com[:2])
ToCardHex(s) ==
    IF Len(s) < 4 THEN [exc |-> "", val |-> TRUE, warned |-> FALSE]
    ELSE ToCardOf(ToCardTemplate(s))

\* to_card(com), com a binary string
to_card(com) == ToCardHex(Lower(tohex(Take(com, 2))))

\* CLA and INS bytes of the command codes looked up
ClaBytes == {0, 12, 64, 79, 128, 132, 144}

InsBytes == {164, 192, 178, 174, 202, 65, 66, 32, 153, 30}

CommandCodes == {<<cla, ins>> : cla \in ClaBytes, ins \in InsBytes}

\* one command code, looked up by command_name (as print_events calls it, on
\* lower-case hex text) and by to_card (on the bytes)
CmdInit ==
    /\ obj = None
    /\ pre = None
    /\ adds = 0
    /\ exc = ""
    /\ out = None
    /\ \E com \in CommandCodes : op = [name |-> "command", com |-> com]

\* "command_name(s)" or "to_card(com)" gave r
LookedUp(r, call) ==
    /\ out' = [call |-> call, val |-> r.val]
    /\ exc' = r.exc
    /\ UNCHANGED <<obj, pre, op, adds>>

\* print command_name(data[0:4].lower())
CommandName ==
    /\ op.name = "command"
    /\ out = None
    /\ LookedUp(command_name(Lower(tohex(op.com))), "command_name")

\* to_card(com)
ToCard ==
    /\ op.name = "command"
    /\ out = None
    /\ LookedUp(to_card(op.com), "to_card")

CmdNext == CommandName \/ ToCard

CmdSpec == CmdInit /\ [][CmdNext]_vars

\* the table key of a command code: nibble 1, wildcard, nibbles 3-4
KeyOf(com) ==
    <<Lower(tohex(com))[1], 120, Lower(tohex(com))[3], Lower(tohex(com))[4]>>

\* C21: command lookup wildcards the second nibble.  For a 2-byte command
\* code command_name and to_card give what the table entry keyed by nibble 1,
\* wildcard, nibbles 3-4 says (so two codes differing only in nibble 2 give
\* the same), and without such an entry no name and the direction
\* terminal-to-card; neither raises.
C21_SecondNibbleWildcard ==
    (op.name = "command" /\ out # None) =>
        /\ exc = ""
        /\ (out.call = "command_name" /\ KeyOf(op.com) \in DOMAIN command) =>
              out.val = <<"(", command[KeyOf(op.com)][2], ")">>
        /\ (out.call = "command_name" /\ KeyOf(op.com) \notin DOMAIN command) =>
              out.val = <<>>
        /\ (out.call = "to_card" /\ KeyOf(op.com) \in DOMAIN command) =>
              out.val = (command[KeyOf(op.com)][1] = TO_CARD)
        /\ (out.call = "to_card" /\ KeyOf(op.com) \notin DOMAIN command) =>
              out.val = TRUE

\* 0C C0 (READ MORE with second nibble C) was found to go to the terminal
C21_Witness ==
    /\ op.name = "command"
    /\ op.com = <<12, 192>>
    /\ out # None
    /\ out.call = "to_card"
    /\ out.val = FALSE

\* ------------------------------------------------------------ explain_response
\* lines 114-115 look the code up in "response_codes"; emv_commands.py binds
\* no such name (the table is called "response"), so evaluating line 114
\* raises NameError
ResponseCodesBound == FALSE

\* s.startswith(p)
StartsWith(s, p) == Len(s) >= Len(p) /\ Take(s, Len(p)) = p

\* what explain_response returns: meaning + " (0x%s)" % code, the meaning
\* as its text and the piece of the code put into it
Explained(text, param, code) == [text |-> text, param |-> param, code |-> code]

\* lines 114-117: reached when no special prefix matched
ExplainTable(code) ==
    IF ~ResponseCodesBound THEN [exc |-> "NameError", val |-> None]
    ELSE IF code \in DOMAIN response
    THEN [exc |-> "", val |-> Explained(response[code], <<>>, code)]
    ELSE [exc |-> "", val |-> Explained("Unknown response", <<>>, code)]

\* lines 106-117: the chain of tests on code; code[3] of a 3-character code
\* raises IndexError
ExplainCode(code) ==
    IF StartsWith(code, <<54, 51, 67>>)
    THEN IF Len(code) < 4 THEN [exc |-> "IndexError", val |-> None]
         ELSE [exc |-> "",
               val |-> Explained("Warning: counter is 0x0", <<code[4]>>, code)]
    ELSE IF StartsWith(code, <<54, 49>>)
    THEN [exc |-> "", val |-> Explained("OK: bytes available", Slice(code, 2, 4), code)]
    ELSE IF StartsWith(code, <<54, 54>>)
    THEN [exc |-> "", val |-> Explained("Security error", Slice(code, 2, 4), code)]
    ELSE IF StartsWith(code, <<54, 67>>)
    THEN [exc |-> "",
          val |-> Explained("Checking error: wrong length, should be",
                            Slice(code, 2, 4), code)]
    ELSE ExplainTable(code)

\* explain_response(response): code = response[-4:].upper()
explain_response(r) == ExplainCode(Upper(Drop(r, Len(r) - 4)))

\* status words, in lower case as the tables spell them: StatusWords and
\* those with second nibble 6
ExplainWords ==
    {<<a, b, c, d>> : a \in StatusFirst, b \in StatusSecond \cup {54},
                      c \in StatusThird, d \in StatusFourth}

\* one call of explain_response on a status word
ExplainInit ==
    /\ obj = None
    /\ pre = None
    /\ adds = 0
    /\ exc = ""
    /\ out = None
    /\ \E r \in ExplainWords : op = [name |-> "explain_response", r |-> r]

\* "explain_response(r)" gave e
ExplainedAs(e) ==
    /\ out' = [val |-> e.val]
    /\ exc' = e.exc
    /\ UNCHANGED <<obj, pre, op, adds>>

\* explain_response(r)
ExplainResponse ==
    /\ op.name = "explain_response"
    /\ out = None
    /\ ExplainedAs(explain_response(op.r))

ExplainNext == ExplainResponse

ExplainSpec == ExplainInit /\ [][ExplainNext]_vars

\* a word with one of the prefixes 63C, 61, 66, 6C
Special(code) ==
    \/ StartsWith(code, <<54, 51, 67>>)
    \/ StartsWith(code, <<54, 49>>)
    \/ StartsWith(code, <<54, 54>>)
    \/ StartsWith(code, <<54, 67>>)

\* C22: explain_response never raises and classifies a 4-nibble status word
\* in order: a word with prefix 63C, 61, 66 or 6C gets the special meaning
\* with its parameter, otherwise a word of the response table its table
\* meaning, otherwise "Unknown response".
C22_ExplainResponse ==
    (op.name = "explain_response" /\ out # None) =>
        /\ exc = ""
        /\ out.val # None
        /\ Special(Upper(op.r)) =>
              /\ out.val.text \in {"Warning: counter is 0x0", "OK: bytes available",
                                   "Security error",
                                   "Checking error: wrong length, should be"}
              /\ Len(out.val.param) > 0
        /\ (~Special(Upper(op.r)) /\ op.r \in DOMAIN response) =>
              out.val.text = response[op.r]
        /\ (~Special(Upper(op.r)) /\ op.r \notin DOMAIN response) =>
              out.val.text = "Unknown response"

\* ------------------------------------------------------------ length decoding
\* the length the field lenb stands for when the high bit of its first byte
\* only tells the width of the field
LengthOf(lenb) ==
    IF lenb[1] < OneByteLimit \div 2 THEN lenb[1]
    ELSE (lenb[1] % (OneByteLimit \div 2)) * OneByteLimit + lenb[2]

\* the width of the length field that starts with byte b
LengthWidth(b) == IF b < OneByteLimit \div 2 THEN 1 ELSE 2

RECURSIVE LengthsDecoded(_)
\* every node of the tree o took its length from its length field
LengthsDecoded(o) ==
    /\ Len(o.lenb) = LengthWidth(o.lenb[1])
    /\ o.len = LengthOf(o.lenb)
    /\ o.constructed => \A i \in 1..Len(o.items) : LengthsDecoded(o.items[i])

\* C23: length decoding in Parse.  A length field whose first byte has its
\* high bit clear is 1 byte long and decodes to that byte; one whose first
\* byte has its high bit set is 2 bytes long and decodes to the low 7 bits of
\* the first byte combined with the second byte, the high bit itself never
\* contributing to the length.
C23_LengthDecoding ==
    (op.name = "parse" /\ obj # None) =>
        /\ obj.lenb = Slice(obj.raw, Len(obj.tag),
                            Len(obj.tag) + LengthWidth(obj.raw[Len(obj.tag) + 1]))
        /\ LengthsDecoded(obj)

\* ------------------------------------------- the loops, a turn at a time
\* The loops of the parsers run one iteration per step: op is the loop and
\* the input it runs on, out.i the loop's position (bytes of the value
\* consumed, or the scan index), out.iters the iterations that came back to
\* the loop test, out.done whether the loop was left.
At(i, iters, done) == [i |-> i, iters |-> iters, done |-> done]

\* tlv.py line 265, v = v[ncls.remlen:]: r is what T(tohex(v), depth+1) gave
ChildConsumed(o, r) ==
    IF r.exc # "" THEN [exc |-> r.exc, val |-> At(o.i, o.iters, TRUE)]
    ELSE [exc |-> "", val |-> At(o.i + r.obj.remlen, o.iters + 1, FALSE)]

\* tlv.py lines 257-285: one turn of "while len(v) > 0", v = data[o.i:]
ChildIter(data, o) ==
    IF Len(data) - o.i <= 0 THEN [exc |-> "", val |-> At(o.i, o.iters, TRUE)]
    ELSE ChildConsumed(o, NewT(tohex(Drop(data, o.i)), 1))

\* pyscripts/scdtrace.py lines 79-85: the next command marker is at posc
\* (the loop goes on from it), or the end marker at pose (done = 1)
ParseIterNext(o, posc, pose) ==
    IF posc >= 0 THEN At(posc, o.iters + 1, FALSE)
    ELSE IF pose < 0 THEN At(o.i, o.iters, TRUE)
    ELSE At(pose, o.iters + 1, TRUE)

\* lines 74-76
ParseIterResponse(hexstring, o, pos2) ==
    IF pos2 < 0 THEN At(o.i, o.iters, TRUE)
    ELSE ParseIterNext(o, Find(hexstring, commandstr, pos2, Len(hexstring)),
                       Find(hexstring, endstr, pos2, Len(hexstring)))

\* pyscripts/scdtrace.py lines 72-87: one turn of "while done == 0"
ParseIter(hexstring, o) ==
    [exc |-> "",
     val |-> ParseIterResponse(hexstring, o,
                               Find(hexstring, responsestr, o.i, Len(hexstring)))]

\* lines 62-68: where SCDTrace.parse enters its loop, if it does
ParseEntryAt(pos) == IF pos < 0 THEN At(0, 0, TRUE) ELSE At(pos, 0, FALSE)

ParseEntryFrom(hexstring, start) ==
    IF start < 0 THEN At(0, 0, TRUE)
    ELSE ParseEntryAt(Find(hexstring, commandstr, start + Len(startstr), Len(hexstring)))

ParseEntry(hexstring) ==
    ParseEntryFrom(hexstring, Find(hexstring, startstr, 0, Len(hexstring)))

\* a loop that scans on from the start marker it has just found
TraceIndexAtStart(j, k) == j

\* pyscripts/scdtrace.py line 143: i = k + len(end)
TraceIndex(j, k) == k + Len(endstr)

\* lines 139-143
TraceIterEnd(o, j, k) ==
    IF k < 0 THEN At(o.i, o.iters, TRUE)
    ELSE At(TraceIndex(j, k), o.iters + 1, FALSE)

\* lines 136-139
TraceIterStart(bigtrace, o, j) ==
    IF j < 0 THEN At(o.i, o.iters, TRUE)
    ELSE TraceIterEnd(o, j, Find(bigtrace, endstr, j, Len(bigtrace)))

\* pyscripts/scdtrace.py lines 135-143: one turn of "while i < len(bigtrace)"
TraceIter(bigtrace, o) ==
    [exc |-> "",
     val |-> IF o.i >= Len(bigtrace) THEN At(o.i, o.iters, TRUE)
             ELSE TraceIterStart(bigtrace, o, Find(bigtrace, startstr, o.i, Len(bigtrace)))]

\* pytools/scdtrace.py lines 259-278: the header read at o.i is byte_value;
\* i is past the header when the loop breaks
SplitIterRecord(data, o, byte_value) ==
    IF ((byte_value % 4) + 1) * 2 > Len(data) - (o.i + 2)
    THEN At(o.i + 2, o.iters, TRUE)
    ELSE At(o.i + 2 + 2 * ((byte_value % 4) + 1), o.iters + 1, FALSE)

\* line 258
SplitIterHeader(data, o, header) ==
    IF header.exc # "" THEN [exc |-> header.exc, val |-> At(o.i, o.iters, TRUE)]
    ELSE [exc |-> "", val |-> SplitIterRecord(data, o, header.val)]

\* pytools/scdtrace.py lines 257-278: one turn of "while i < data_len"
SplitIter(data, o) ==
    IF o.i >= Len(data) THEN [exc |-> "", val |-> At(o.i, o.iters, TRUE)]
    ELSE SplitIterHeader(data, o, int16(Slice(data, o.i, o.i + 2)))

\* the values of the constructed T objects parsed
ChildValues == {Drop(b, 2) : b \in {c \in ParseBytes : Len(c) > 2 /\ c[1] = 111}}

\* the texts SCDTrace is made on: a transaction, complete or cut short
LoopStreams ==
    {Stream(pairs) : pairs \in PairSeqs} \cup Tails
        \cup {Take(Stream(<<<<CmdSelect, RespOk>>>>), n) : n \in {5, 15, 40}}

\* the texts parseHexfile cuts into transactions
LoopTraces ==
    {HexfileLoop(HexLines(FileText(txns, tail)), <<>>).val :
        txns \in TxnSeqs, tail \in Tails}

\* the regions split_events is run on; the last ones end in half a byte and
\* in a character that is no hex digit
LoopRegions ==
    {Region(records, tail) : records \in RecordSeqs, tail \in LogTails}
        \cup {SampleRegion \o <<48>>, SampleRegion \o <<48, 71>>}

StepInit ==
    /\ obj = None
    /\ pre = None
    /\ adds = 0
    /\ exc = ""
    /\ \/ \E v \in ChildValues :
            /\ op = [name |-> "_parse", data |-> v]
            /\ out = At(0, 0, FALSE)
       \/ \E hexstring \in LoopStreams :
            /\ op = [name |-> "parse", data |-> hexstring]
            /\ out = ParseEntry(hexstring)
       \/ \E bigtrace \in LoopTraces :
            /\ op = [name |-> "parseHexfile", data |-> bigtrace]
            /\ out = At(0, 0, FALSE)
       \/ \E data \in LoopRegions :
            /\ op = [name |-> "split_events", data |-> data]
            /\ out = At(0, 0, FALSE)

\* one turn of the loop gave r
Turned(r) ==
    /\ out' = r.val
    /\ exc' = r.exc
    /\ UNCHANGED <<obj, pre, op, adds>>

\* T._parse: the next child of the constructed value
ChildStep ==
    /\ op.name = "_parse"
    /\ ~out.done
    /\ Turned(ChildIter(op.data, out))

\* SCDTrace.parse: the next command and response pair
ParseStep ==
    /\ op.name = "parse"
    /\ ~out.done
    /\ Turned(ParseIter(op.data, out))

\* parseHexfile: the next transaction
TraceStep ==
    /\ op.name = "parseHexfile"
    /\ ~out.done
    /\ Turned(TraceIter(op.data, out))

\* split_events: the next record
SplitStep ==
    /\ op.name = "split_events"
    /\ ~out.done
    /\ Turned(SplitIter(op.data, out))

StepNext == ChildStep \/ ParseStep \/ TraceStep \/ SplitStep

StepSpec == StepInit /\ [][StepNext]_vars

\* C24: parsing terminates on every finite input.  Every turn of a loop that
\* comes back to the loop test has moved the loop's position forward (a child
\* parse consumed at least one byte of the value; the scan position of
\* SCDTrace.parse, the index of the transaction loop of parseHexfile and the
\* index of split_events grew), the position stays inside the input, and a
\* loop makes at most as many turns as its input is long.
C24_Termination ==
    [][/\ out'.iters > out.iters => out'.i > out.i
       /\ out'.i >= out.i
       /\ out'.i <= Len(op.data) + 1
       /\ out'.iters <= Len(op.data)]_vars

\* the transaction loop of parseHexfile was left after two turns or more
C24_Witness ==
    /\ op.name = "parseHexfile"
    /\ out.done
    /\ exc = ""
    /\ out.iters >= 2

\* ------------------------------------------------------- log-region extraction
\* byte k (from 0) of a dump given as hex text
ByteAt(dump, k) == 16 * HexVal(dump[2 * k + 1]) + HexVal(dump[2 * k + 2])

\* the address bytes 72-73 of the dump hold, most significant byte first
LastLogAddress(dump) == OneByteLimit * ByteAt(dump, 72) + ByteAt(dump, 73)

\* the dump has n characters at and after byte 128 that lie before byte
\* number address and inside the dump
LiveLength(dump, address) ==
    IF Len(dump) < 2 * address
    THEN (IF Len(dump) > 2 * 128 THEN Len(dump) - 2 * 128 ELSE 0)
    ELSE (IF address > 128 THEN 2 * (address - 128) ELSE 0)

\* the bytes of the dump from byte 128 up to, excluding, byte number address
LiveLog(dump, address) == [n \in 1..LiveLength(dump, address) |-> dump[2 * 128 + n]]

\* extract_log_data has run on a dump that has its bytes 72-73
ExtractCalled ==
    /\ op.name = "process_data"
    /\ out # None
    /\ out.stage # "parse_intel_hex"
    /\ Len(out.bigtrace) >= 2 * 74

\* C25: log-region extraction.  extract_log_data returns the bytes of the
\* dump from byte 128 up to, excluding, the address held big-endian in bytes
\* 72-73: nothing when that address is at most 128, never more than the dump
\* has, and never a byte of the first 128.
C25_LogRegion ==
    ExtractCalled =>
        /\ out.log_data = LiveLog(out.bigtrace, LastLogAddress(out.bigtrace))
        /\ LastLogAddress(out.bigtrace) <= 128 => out.log_data = <<>>
        /\ Len(out.log_data) + 2 * 128 <= Len(out.bigtrace) \/ out.log_data = <<>>
        /\ out.bigtrace = Take(out.bigtrace, 2 * 128) \o out.log_data
                              \o Drop(out.bigtrace, 2 * 128 + Len(out.log_data))
              \/ out.log_data = <<>>

\* a region was extracted that ends before the dump does
C25_Witness ==
    /\ ExtractCalled
    /\ out.stage = "extract_log_data"
    /\ exc = ""
    /\ Len(out.log_data) > 0
    /\ Len(out.log_data) + 2 * 128 < Len(out.bigtrace)

\* ---------------------------------------------------------- timestamp decoding
\* the unsigned 32-bit value of a 4-byte payload, least significant byte first
LittleEndian(payload) ==
    ByteAt(payload, 0) + OneByteLimit * (ByteAt(payload, 1)
        + OneByteLimit * (ByteAt(payload, 2) + OneByteLimit * ByteAt(payload, 3)))

IsTimeRecord(r) == r.type \in {48, 49}

HasTime(p) == p.time # -1

\* the times the records of type 0x30 and 0x31 stand for, in log order
RecordTimes(records) ==
    [k \in 1..Len(SelectSeq(records, IsTimeRecord)) |->
        (LittleEndian(SelectSeq(records, IsTimeRecord)[k].payload) * 1024) \div 1000]

\* the "time in ms" lines of the report, in order
ReportedTimes(printed) ==
    [k \in 1..Len(SelectSeq(printed, HasTime)) |-> SelectSeq(printed, HasTime)[k].time]

\* C26: timestamp decoding.  For every record of type 0x30 or 0x31 of the log
\* region the report has a time in milliseconds, floor(V * 1024 / 1000), V
\* being the record's 4-byte payload read least significant byte first.
C26_Timestamps ==
    (/\ op.name = "process_data"
     /\ op.kind = "dump"
     /\ out # None
     /\ out.stage = "print_events"
     /\ exc = "") =>
        ReportedTimes(out.printed) = RecordTimes(op.records)

\* ------------------------------------------------------------- nesting depth
\* most constructed levels around a leaf in a parsed buffer
MaxNest == 6

\* tag, 1-byte length, value
Tlv(tag, value) == tag \o <<Len(value)>> \o value

RECURSIVE Nested(_, _)
\* leaf inside n constructed nodes of tag 6F
Nested(n, leaf) == IF n = 0 THEN leaf ELSE Tlv(Tag6F, Nested(n - 1, leaf))

NestLeaves ==
    {Tlv(tag, value) : tag \in {Tag84, Tag88, Tag5F2D},
                       value \in {<<>>, <<2>>, <<101, 110>>, <<1, 2, 3>>}}

RECURSIVE Deepest(_)
\* the greatest depth attribute in the tree o
Deepest(o) ==
    IF o.constructed /\ Len(o.items) > 0
    THEN Deepest(o.items[CHOOSE i \in 1..Len(o.items) :
                            \A j \in 1..Len(o.items) :
                                Deepest(o.items[j]) <= Deepest(o.items[i])])
    ELSE o.depth

NestInit ==
    /\ obj = None
    /\ pre = None
    /\ adds = 0
    /\ exc = ""
    /\ out = None
    /\ \E n \in 1..MaxNest, leaf \in NestLeaves :
          op = [name |-> "nested", nesting |-> n, arg1 |-> tohex(Nested(n, leaf))]

\* "t = T(arg1)" gave r; out tells the call is over
NestedMade(r) ==
    /\ obj' = IF r.exc = "" THEN r.obj ELSE None
    /\ exc' = r.exc
    /\ out' = [done |-> TRUE]
    /\ UNCHANGED <<pre, op, adds>>

\* t = T(arg1) on a nested buffer
ParseNested ==
    /\ op.name = "nested"
    /\ out = None
    /\ NestedMade(NewT(op.arg1, 0))

NestNext == ParseNested

NestSpec == NestInit /\ [][NestNext]_vars

\* the greatest depth a limit below MaxNest lets a tree have
DepthLimit == MaxNest - 1

HeaderTypes(data) == {ByteAt(data, k) \div 4 : k \in 0..(Len(data) \div 2 - 1)}

\* C28: every event split_events returns, for every input (an empty region
\* and a region whose first record is already cut short included), has a
\* type that is a 6-bit code 0..63 taken from a header byte of the input and
\* a payload that is not empty; the "no pending event" value 0xFF is never
\* the type of a returned event.
C28_ReturnedEvents ==
    (/\ op.name = "process_data"
     /\ out # None
     /\ out.stage \in {"split_events", "print_events"}) =>
        \A k \in 1..Len(out.events_list) :
            /\ out.events_list[k].type \in 0..63
            /\ out.events_list[k].type \in HeaderTypes(out.log_data)
            /\ Len(out.events_list[k].data) > 0
            /\ out.events_list[k].type # NoType

\* ------------------------------------------------------------ CAPDU and RAPDU
\* longest text a CAPDU or RAPDU is made of
MaxApdu == 14

\* command and response texts; their beginnings are the inputs
ApduTexts ==
    {CmdSelectData, CmdGetResponse \o RespData, RespData \o CmdSelect,
     Lower(tohex(<<128, 174, 128, 0, 29, 1, 2>>))}

ApduStrings == {Take(s, n) : s \in ApduTexts, n \in 0..MaxApdu}

ApduInit ==
    /\ obj = None
    /\ pre = None
    /\ adds = 0
    /\ exc = ""
    /\ out = None
    /\ \E hexstring \in ApduStrings : op = [name |-> "apdu", hexstring |-> hexstring]

\* CAPDU(hexstring)
NewCAPDU ==
    /\ op.name = "apdu"
    /\ out = None
    /\ out' = [class |-> "CAPDU", apdu |-> CAPDU(op.hexstring)]
    /\ UNCHANGED <<obj, pre, op, exc, adds>>

\* RAPDU(hexstring)
NewRAPDU ==
    /\ op.name = "apdu"
    /\ out = None
    /\ out' = [class |-> "RAPDU", apdu |-> RAPDU(op.hexstring)]
    /\ UNCHANGED <<obj, pre, op, exc, adds>>

ApduNext == NewCAPDU \/ NewRAPDU

ApduSpec == ApduInit /\ [][ApduNext]_vars

\* C29: for every hex string given to CAPDU or RAPDU the string is kept as
\* it is and header + data (status + data) is the string; header is empty or
\* the first 5 bytes and is not empty exactly when the string has 5 bytes or
\* more, status is empty or the first 2 bytes and is not empty exactly when
\* the string has 2 bytes or more.
C29_ApduFields ==
    (op.name = "apdu" /\ out # None) =>
        /\ out.apdu.hexstring = op.hexstring
        /\ out.class = "CAPDU" =>
              /\ out.apdu.header \o out.apdu.data = op.hexstring
              /\ out.apdu.header \in {<<>>, Take(op.hexstring, 2 * 5)}
              /\ Len(out.apdu.header) \in {0, 2 * 5}
              /\ out.apdu.header # <<>> <=> Len(op.hexstring) >= 2 * 5
        /\ out.class = "RAPDU" =>
              /\ out.apdu.status \o out.apdu.data = op.hexstring
              /\ out.apdu.status \in {<<>>, Take(op.hexstring, 2 * 2)}
              /\ Len(out.apdu.status) \in {0, 2 * 2}
              /\ out.apdu.status # <<>> <=> Len(op.hexstring) >= 2 * 2

\* a CAPDU was made of exactly 5 bytes: all header, no data
C29_Witness ==
    /\ op.name = "apdu"
    /\ out # None
    /\ out.class = "CAPDU"
    /\ Len(op.hexstring) = 2 * 5
    /\ out.apdu.header = op.hexstring
    /\ out.apdu.data = <<>>

\* ------------------------------------------------ clis.py: serial sessions
\* serial_terminal and serial_card run a step at a time, a step ending where
\* the code waits for the device (ser.readline) or for the file
\* (fid.readline).  op is the function called and the lines of fid; out is
\*   pc    where the function is: "start", "init" (waiting for the reply to
\*         the init command), "loop", "data", "end", "return"
\*   sent  what was written to the port, in order
\*   got   the replies read from the port, in order
\*   pos   how many lines of fid were read
\*   ser   the port: "none" before serial.Serial(port), "open", "closed"
\*   fid   the file: "open", "closed"
\*   ret   the value returned ("none" until then)

\* most command lines before the terminator line
MaxLines == 2

\* ser.write(cmd + text + "\r\n")
Written(cmd, text) == [cmd |-> cmd, text |-> text]

RECURSIVE Rstrip(_)
\* line.rstrip('\n')
Rstrip(line) ==
    IF Len(line) > 0 /\ line[Len(line)] = 10 THEN Rstrip(Take(line, Len(line) - 1))
    ELSE line

\* line.find('0000000000') == 0
IsTerminator(line) == Find(line, Fill(48, 10), 0, Len(line)) = 0

\* line.find('AT OK') >= 0
HasOk(line) == Find(line, <<65, 84, 32, 79, 75>>, 0, Len(line)) >= 0

\* line.find('AT BAD') >= 0
HasBad(line) == Find(line, <<65, 84, 32, 66, 65, 68>>, 0, Len(line)) >= 0

\* lines 100 and 142
InitCommand(name) == IF name = "serial_terminal" THEN "AT+CCINIT" ELSE "AT+CTUSB"

\* lines 124 and 166
DataCommand(name) == IF name = "serial_terminal" THEN "AT+CCAPDU=" ELSE "AT+UDATA="

\* fid.readline(): the next line, '' at the end of the file
ReadLine(lines, pos) == IF pos < Len(lines) THEN lines[pos + 1] ELSE <<>>

\* lines 102-107 (144-149): the reply to the init command was read
AfterInit(o, reply) ==
    IF ~HasOk(reply)
    THEN [o EXCEPT !.got = Append(@, reply), !.ser = "closed", !.fid = "closed",
                   !.ret = "False", !.pc = "return"]
    ELSE [o EXCEPT !.got = Append(@, reply), !.pc = "loop"]

\* lines 110-115 and 122-126 (152-157 and 164-168): line was read from fid
AfterLine(name, o, line) ==
    IF IsTerminator(line)
    THEN [o EXCEPT !.fid = "closed", !.sent = Append(@, Written("AT+CCEND", <<>>)),
                   !.pos = @ + 1, !.pc = "end"]
    ELSE [o EXCEPT !.sent = Append(@, Written(DataCommand(name), Rstrip(line))),
                   !.pos = @ + 1, !.pc = "data"]

\* lines 127-128: serial_terminal prints the reply and reads the next line;
\* lines 169-174: serial_card returns on 'AT OK' and on 'AT BAD'
AfterData(name, o, reply) ==
    IF name = "serial_terminal" THEN [o EXCEPT !.got = Append(@, reply), !.pc = "loop"]
    ELSE IF HasOk(reply)
    THEN [o EXCEPT !.got = Append(@, reply), !.ret = "True", !.pc = "return"]
    ELSE IF HasBad(reply)
    THEN [o EXCEPT !.got = Append(@, reply), !.ret = "False", !.pc = "return"]
    ELSE [o EXCEPT !.got = Append(@, reply), !.pc = "loop"]

\* lines 115-121 (158-163): the reply to AT+CCEND was read
AfterEnd(o, reply) ==
    [o EXCEPT !.got = Append(@, reply), !.ser = "closed",
              !.ret = IF HasOk(reply) THEN "True" ELSE "False", !.pc = "return"]

\* command lines of the help text of --userterminal, and a response line
LineSelect == tohex(<<0, 164, 4, 0, 7, 160, 0, 0, 0, 4, 128, 2>>) \o <<10>>

LineGpo == tohex(<<128, 168, 0, 0, 2, 131, 0>>) \o <<10>>

LineMoreData == tohex(<<97, 27>>) \o <<10>>

SerialLines == {LineSelect, LineGpo, LineMoreData}

\* the terminator line, also as the last line of a file without a final
\* newline
Terminators == {Fill(48, 10) \o <<10>>, Fill(48, 10)}

\* files that end as the help text asks, some with a line after the
\* terminator
SerialFiles ==
    {d \o <<t>> \o rest :
        d \in UNION {[1..n -> SerialLines] : n \in 0..MaxLines},
        t \in Terminators, rest \in {<<>>, <<LineSelect>>}}

\* what the device answers: AT OK, AT BAD, something else
Replies ==
    {<<65, 84, 32, 79, 75, 13, 10>>, <<65, 84, 32, 66, 65, 68, 13, 10>>, <<13, 10>>}

SerialInit ==
    /\ obj = None
    /\ pre = None
    /\ adds = 0
    /\ exc = ""
    /\ \E name \in {"serial_terminal", "serial_card"}, lines \in SerialFiles :
          op = [name |-> name, lines |-> lines]
    /\ out = [pc |-> "start", sent |-> <<>>, got |-> <<>>, pos |-> 0,
              ser |-> "none", fid |-> "open", ret |-> "none"]

\* the function has gone on to o
Went(o) ==
    /\ out' = o
    /\ UNCHANGED <<obj, pre, op, exc, adds>>

\* lines 99-101 (141-143): the port is opened and the init command written
SerialOpen ==
    /\ out.pc = "start"
    /\ Went([out EXCEPT !.ser = "open",
                        !.sent = Append(@, Written(InitCommand(op.name), <<>>)),
                        !.pc = "init"])

\* line 102 (144): line = ser.readline()
InitReply ==
    /\ out.pc = "init"
    /\ \E reply \in Replies : Went(AfterInit(out, reply))

\* line 110 (152): line = fid.readline()
NextLine ==
    /\ out.pc = "loop"
    /\ Went(AfterLine(op.name, out, ReadLine(op.lines, out.pos)))

\* line 127 (169): line = ser.readline() after a data command
DataReply ==
    /\ out.pc = "data"
    /\ \E reply \in Replies : Went(AfterData(op.name, out, reply))

\* line 115 (158): line = ser.readline() after AT+CCEND
EndReply ==
    /\ out.pc = "end"
    /\ \E reply \in Replies : Went(AfterEnd(out, reply))

SerialNext == SerialOpen \/ InitReply \/ NextLine \/ DataReply \/ EndReply

SerialSpec == SerialInit /\ [][SerialNext]_vars

\* the lines before the first terminator line
RECURSIVE CommandLines(_)
CommandLines(lines) ==
    IF Len(lines) = 0 \/ IsTerminator(Head(lines)) THEN <<>>
    ELSE <<Head(lines)>> \o CommandLines(Tail(lines))

\* what a whole session writes: the init command, a data command for each
\* line before the terminator, AT+CCEND
Session(name, lines) ==
    <<Written(InitCommand(name), <<>>)>>
        \o [k \in 1..Len(CommandLines(lines)) |->
               Written(DataCommand(name), Rstrip(CommandLines(lines)[k]))]
        \o <<Written("AT+CCEND", <<>>)>>

\* C30: the serial session of serial_terminal and serial_card.  The init
\* command is written first, and nothing else when its reply lacks 'AT OK';
\* otherwise one data command is written for each line before the
\* '0000000000' line, in file order and each only after the reply to the one
\* before was read; on every return after a successful init AT+CCEND was
\* written exactly once, after all data commands, and the port is closed.
C30_SessionDiscipline ==
    op.name \in {"serial_terminal", "serial_card"} =>
        /\ Len(out.sent) <= Len(Session(op.name, op.lines))
        /\ out.sent = Take(Session(op.name, op.lines), Len(out.sent))
        /\ Len(out.sent) <= Len(out.got) + 1
        /\ (Len(out.got) > 0 /\ ~HasOk(out.got[1])) => Len(out.sent) = 1
        /\ (out.pc = "return" /\ HasOk(out.got[1])) =>
              /\ out.sent = Session(op.name, op.lines)
              /\ out.ser = "closed"

====
